---- MODULE Spec2Model ----
(***************************************************************************)
(* Bea Apa hydration reminder: the hydration tracker (MainWindow), the     *)
(* settings document (SettingsManager), the history window, the settings   *)
(* dialog's data page and the achievement engine (AchievementManager,      *)
(* ProfileSystem).                                                         *)
(*                                                                         *)
(* Calendar dates are day numbers; the process starts on day 0 and stored  *)
(* data carries negative day numbers.  An ISO date string is a record      *)
(* [ok, day] and an ISO timestamp a record [ok, day, hour]; ok = FALSE is   *)
(* a string datetime.fromisoformat rejects.  A Python dict is a sequence   *)
(* of [k, v] items in insertion order.                                     *)
(***************************************************************************)
EXTENDS Integers, Sequences, FiniteSets, TLC

VARIABLES
    today,                 \* datetime.now().date()
    hour,                  \* datetime.now().hour
    settings,              \* SettingsManager.settings
    hydration_log_count,   \* MainWindow.hydration_log_count
    daily_hydration_goal,  \* MainWindow.daily_hydration_goal
    achievements,          \* AchievementManager.achievements
    notification_queue,    \* ProfileSystem.notification_queue
    active_notification,   \* ProfileSystem.active_notification
    daily_reset_timers,    \* due days of the pending single-shot daily_reset_timer objects
    startup_check_pending, \* QTimer.singleShot(1000, update_achievements) not yet fired
    history_connected      \* a HistoryWindow is connected to MainWindow.history_updated

(* The reminder scheduler of MainWindow.  Monotonic time is counted in seconds and
   passes a minute at a time. *)
VARIABLES
    min_hydration_interval,    \* MainWindow.min_hydration_interval, minutes (= min_minutes)
    max_hydration_interval,    \* MainWindow.max_hydration_interval, minutes (= max_minutes)
    snooze_duration,           \* MainWindow.snooze_duration, minutes
    current_reminder_interval, \* the interval reminder_timer was started with, seconds
    reminder_elapsed,          \* seconds since reminder_timer was started
    reminder_timer_active,     \* reminder_timer.isActive()
    current_reminder,          \* a reminder dialog is shown and not answered
    armed_by,                  \* the method that started reminder_timer last
    classroom_elapsed,         \* seconds since classroom_mode, while its 90 minutes run
    reminder_monotonic_elapsed \* time.monotonic() - reminder_monotonic_start, seconds,
                               \* counted up to the longest interval there is

hydration_vars ==
    <<today, hour, settings, hydration_log_count, daily_hydration_goal,
      achievements, notification_queue, active_notification,
      daily_reset_timers, startup_check_pending, history_connected>>

reminder_vars ==
    <<min_hydration_interval, max_hydration_interval, snooze_duration,
      current_reminder_interval, reminder_elapsed, reminder_timer_active,
      current_reminder, armed_by, classroom_elapsed, reminder_monotonic_elapsed>>

(* SettingsManager.load_settings on a settings.json *)
VARIABLES
    settings_file,   \* settings.json: [exists, valid, doc], doc the JSON object as a function
    loaded_settings  \* [done, settings]: what load_settings returned, once it has run

load_vars == <<settings_file, loaded_settings>>

(* MainWindow.__init__ and the process around it *)
VARIABLES
    window  \* "starting" inside MainWindow.__init__, "running" in the event loop,
            \* "crashed" once an exception left main()

window_vars == <<window>>

(* TodoListWidget: widgets/todo_widget.py.  A str is the sequence of its characters. *)
VARIABLES
    todo_list,       \* whether MainWindow.todo_list holds a TodoListWidget
    todos,           \* TodoListWidget.todos, the TodoItems in list order
    quick_add_edit   \* the text in the quick add field

todo_vars == <<todo_list, todos, quick_add_edit>>

(* main() of bea_apa.py in each launched process, and the local socket they share *)
VARIABLES
    pc,           \* per process: where it stands in main()
    socket_file,  \* the path of instance_id: [exists, owner], owner the process that bound it
    listening,    \* per process: its QLocalServer listens
    sent_raise    \* per process: it wrote b'raise' to a connected socket

launch_vars == <<pc, socket_file, listening, sent_raise>>

(* AchievementManager.check_todo_achievements called on the to-do list, and the
   to-do list of a TodoListWidget that was given the settings manager *)
VARIABLES
    daily_task_completions,  \* settings 'daily_task_completions': the days, in list order
    newly_unlocked,          \* what check_todo_achievements returned last: the ids in order
    stored_todos,            \* settings 'todos': the dicts of save_todos, in list order
    modified                 \* TodoListWidget.modified

(* WaterLevelWidget, the floating tracker of MainWindow.open_water_level, which reads
   and writes settings.json itself *)
VARIABLES
    water_level,  \* MainWindow.water_level: [exists, target_drinks, current_log_count]
    disk_reset    \* reset_today has put log_count 0 into settings.json and
                  \* SettingsManager.save_settings has not written the file since

task_vars ==
    <<daily_task_completions, newly_unlocked, stored_todos, modified, water_level,
      disk_reset>>

(* what the reminder handlers leave alone besides the hydration tracker *)
beside_reminder_vars == <<load_vars, window_vars, todo_vars, launch_vars, task_vars>>

(* what the handlers of the hydration tracker leave alone *)
other_vars == <<reminder_vars, load_vars, window_vars, todo_vars, launch_vars, task_vars>>

(* what the steps of main() leave alone *)
beside_launch_vars == <<hydration_vars, reminder_vars, load_vars, window_vars, todo_vars,
                        task_vars>>

vars == <<hydration_vars, other_vars>>

------------------------------------------------------------------------------
(* Bounds of the model *)

MaxDay == 1
MaxGoal == 2
MaxSaves == 2
MaxMinutes == 2
MaxTodos == 4
MaxTokens == 3
MaxLaunches == 3

(* Program constants *)

LogTimesCap == 100
SliderMinGoal == 1
ThreeDayStreak == 3
WeekStreak == 7
MonthStreak == 30
Drinks100 == 100
Drinks500 == 500
PerfectWeekDays == 7
TimeBasedMinLogs == 5
MorningHour == 9
NightHour == 22
TimeBasedCount == 5
ConsistencyMinLogs == 4
ConsistencyGapHours == 2
ConsistencyGoodIntervals == 3
SecondsPerMinute == 60
ClassroomMinutes == 90
DefaultMinMinutes == 30
DefaultSnoozeMinutes == 10
SliderMinInterval == 1
DefaultDailyGoal == 15
QuickAddDeadlineHour == 18
NextWeekDays == 7
SampleDeadlineHour == 12

------------------------------------------------------------------------------
(* Strings holding dates and timestamps *)

DateStr(d) == [ok |-> TRUE, day |-> d]
StampStr(d, h) == [ok |-> TRUE, day |-> d, hour |-> h]
BadDateStr == [ok |-> FALSE, day |-> 0]
BadStampStr == [ok |-> FALSE, day |-> 0, hour |-> 0]
NoDate == [ok |-> FALSE, day |-> 0, hour |-> 0]

Now == StampStr(today, hour)

Min(a, b) == IF a <= b THEN a ELSE b

(* Python dict as a sequence of items *)

DictKeys(d) == {d[i].k : i \in 1..Len(d)}

DictGet(d, key, default) ==
    IF \E i \in 1..Len(d) : d[i].k = key
    THEN LET i == CHOOSE j \in 1..Len(d) : d[j].k = key IN d[i].v
    ELSE default

DictSet(d, key, value) ==
    IF \E i \in 1..Len(d) : d[i].k = key
    THEN [i \in 1..Len(d) |-> IF d[i].k = key THEN [k |-> key, v |-> value] ELSE d[i]]
    ELSE Append(d, [k |-> key, v |-> value])

RECURSIVE SumValues(_)
SumValues(d) == IF d = <<>> THEN 0 ELSE d[1].v + SumValues(Tail(d))

------------------------------------------------------------------------------
(* Achievement: dialogs/achievement_manager.py *)

HydrationIds == {"first_drink", "daily_goal", "three_day_streak", "week_streak",
                 "month_streak", "total_drinks_100", "total_drinks_500",
                 "morning_person", "night_owl", "consistency", "perfect_week"}

TodoIds == {"task_master", "productivity_guru", "deadline_hero", "daily_grind",
            "hydrated_worker", "category_master"}

AchIds == HydrationIds \cup TodoIds

DefaultProgressMax(id) ==
    CASE id = "total_drinks_100" -> Drinks100
      [] id = "total_drinks_500" -> Drinks500
      [] id = "perfect_week" -> PerfectWeekDays
      [] id = "task_master" -> 10
      [] id = "productivity_guru" -> 50
      [] id = "deadline_hero" -> 5
      [] id = "daily_grind" -> 5
      [] OTHER -> 0

NewAchievement(id) ==
    [unlocked |-> FALSE, unlock_date |-> NoDate, progress |-> 0,
     progress_max |-> DefaultProgressMax(id)]

create_default_achievements == [id \in AchIds |-> NewAchievement(id)]

(* Achievement.unlock: the achievement afterwards (the call returns ~a.unlocked) *)
unlock(a, now) ==
    IF ~a.unlocked
    THEN [a EXCEPT !.unlocked = TRUE, !.unlock_date = now]
    ELSE a

(* update_progress adding new_progress to the progress instead of replacing it *)
update_progress_accumulating(a, new_progress, now) ==
    IF a.unlocked
    THEN [a |-> a, ret |-> FALSE]
    ELSE LET p == Min(a.progress + new_progress, a.progress_max)
             moved == [a EXCEPT !.progress = p]
         IN IF p >= a.progress_max /\ a.progress_max > 0
            THEN [a |-> [moved EXCEPT !.unlocked = TRUE, !.unlock_date = now], ret |-> TRUE]
            ELSE [a |-> moved, ret |-> a.progress # p]

(* Achievement.update_progress: [a |-> the achievement afterwards, ret |-> returned value] *)
update_progress(a, new_progress, now) ==
    IF a.unlocked
    THEN [a |-> a, ret |-> FALSE]
    ELSE LET p == Min(new_progress, a.progress_max)
             moved == [a EXCEPT !.progress = p]
         IN IF p >= a.progress_max /\ a.progress_max > 0
            THEN [a |-> unlock(moved, now), ret |-> TRUE]
            ELSE [a |-> moved, ret |-> a.progress # p]

(* Achievement.to_dict over the whole list, as save_achievements stores it *)
to_dict(A) ==
    {[id |-> id, unlocked |-> A[id].unlocked, unlock_date |-> A[id].unlock_date,
      progress |-> A[id].progress, progress_max |-> A[id].progress_max] : id \in AchIds}

(* The AchievementManager during update_achievements: the achievements, their stored
   copy, the newly_unlocked list built so far, and whether a check has raised. *)
Manager(A, stored) ==
    [ach |-> A, stored |-> stored, newly |-> <<>>, raised |-> FALSE]

(* achievement.unlock() followed by newly_unlocked.append(achievement) *)
UnlockNew(m, id, now) ==
    [m EXCEPT !.ach[id] = unlock(@, now), !.newly = Append(@, id)]

(* `if newly_unlocked: self.save_achievements()` at the end of a check entered in m0 *)
SaveIfNew(m0, m) ==
    IF m.newly # m0.newly THEN [m EXCEPT !.stored = to_dict(m.ach)] ELSE m

(* check_count_achievements, the first_drink block *)
first_drink_step(m, total_count, now) ==
    IF total_count > 0 /\ ~m.ach["first_drink"].unlocked
    THEN UnlockNew(m, "first_drink", now)
    ELSE m

(* check_count_achievements, one round of the loop over count_achievements *)
progress_step(m, id, total_count, now) ==
    LET u == update_progress(m.ach[id], total_count, now)
    IN [m EXCEPT !.ach[id] = u.a,
                 !.newly = IF u.ret /\ u.a.unlocked THEN Append(@, id) ELSE @]

(* AchievementManager.check_count_achievements *)
check_count_achievements(m, total_count, now) ==
    SaveIfNew(m,
        progress_step(
            progress_step(first_drink_step(m, total_count, now),
                          "total_drinks_100", total_count, now),
            "total_drinks_500", total_count, now))

(* sorted([datetime.fromisoformat(date) for date in history.keys()]) as day numbers *)
SortedDates(history) ==
    SortSeq([i \in 1..Len(history) |-> history[i].k.day], LAMBDA x, y : x < y)

(* the "current streak" loop of check_streak_achievements, lines 364-373 *)
RECURSIVE CountBack(_, _)
CountBack(sorted_dates, i) ==
    IF i >= 2 /\ sorted_dates[i] - sorted_dates[i - 1] = 1
    THEN 1 + CountBack(sorted_dates, i - 1)
    ELSE 1

current_streak(history, td) ==
    LET sorted_dates == SortedDates(history)
    IN IF sorted_dates = <<>> \/ sorted_dates[Len(sorted_dates)] < td - 1
       THEN 0
       ELSE CountBack(sorted_dates, Len(sorted_dates))

(* the perfect-week scan counting only the days above the goal *)
RECURSIVE PerfectScan_above_goal(_, _, _)
PerfectScan_above_goal(items, daily_goal, perfect_days) ==
    IF items = <<>> THEN FALSE
    ELSE IF ~items[1].k.ok THEN PerfectScan_above_goal(Tail(items), daily_goal, perfect_days)
    ELSE LET pd == IF items[1].v > daily_goal THEN perfect_days + 1 ELSE 0
         IN IF pd >= PerfectWeekDays THEN TRUE
            ELSE PerfectScan_above_goal(Tail(items), daily_goal, pd)

(* the perfect-week scan of check_streak_achievements, lines 399-415:
   TRUE when the scan reaches 7 perfect days *)
RECURSIVE PerfectScan(_, _, _)
PerfectScan(items, daily_goal, perfect_days) ==
    IF items = <<>> THEN FALSE
    ELSE IF ~items[1].k.ok THEN PerfectScan(Tail(items), daily_goal, perfect_days)
    ELSE LET pd == IF items[1].v >= daily_goal THEN perfect_days + 1 ELSE 0
         IN IF pd >= PerfectWeekDays THEN TRUE
            ELSE PerfectScan(Tail(items), daily_goal, pd)

(* unlock, in order, every locked achievement of ids (a sequence) whose condition
   holds: wanted is the set of the ids whose condition holds *)
RECURSIVE UnlockEach(_, _, _, _)
UnlockEach(m, ids, wanted, now) ==
    IF ids = <<>> THEN m
    ELSE UnlockEach(IF ~m.ach[ids[1]].unlocked /\ ids[1] \in wanted
                    THEN UnlockNew(m, ids[1], now)
                    ELSE m,
                    Tail(ids), wanted, now)

(* the streak_achievements dict, in its order *)
StreakIds == <<"three_day_streak", "week_streak", "month_streak">>

RequiredStreak(id) ==
    CASE id = "three_day_streak" -> ThreeDayStreak
      [] id = "week_streak" -> WeekStreak
      [] id = "month_streak" -> MonthStreak

(* the ids with current_streak >= required_streak *)
StreaksReached(streak) ==
    {StreakIds[i] : i \in {j \in 1..Len(StreakIds) : streak >= RequiredStreak(StreakIds[j])}}

(* check_streak_achievements, the perfect_week block *)
perfect_week_step(m, history, daily_goal, now) ==
    IF ~m.ach["perfect_week"].unlocked /\ PerfectScan(history, daily_goal, 0)
    THEN UnlockNew(m, "perfect_week", now)
    ELSE m

(* AchievementManager.check_streak_achievements: a history key that does not parse
   raises at line 358, before anything is unlocked *)
check_streak_achievements(m, history, daily_goal, td, now) ==
    IF history = <<>> THEN m
    ELSE IF \E i \in 1..Len(history) : ~history[i].k.ok
    THEN [m EXCEPT !.raised = TRUE]
    ELSE SaveIfNew(m,
             perfect_week_step(
                 UnlockEach(m, StreakIds, StreaksReached(current_streak(history, td)), now),
                 history, daily_goal, now))

(* check_daily_goal_achievement setting unlocked to whether the goal is met now *)
check_daily_goal_achievement_reevaluated(m, current_count, daily_goal, now) ==
    IF current_count >= daily_goal
    THEN IF ~m.ach["daily_goal"].unlocked
         THEN LET m1 == UnlockNew(m, "daily_goal", now)
              IN [m1 EXCEPT !.stored = to_dict(m1.ach)]
         ELSE m
    ELSE [m EXCEPT !.ach["daily_goal"].unlocked = FALSE]

(* AchievementManager.check_daily_goal_achievement *)
check_daily_goal_achievement(m, current_count, daily_goal, now) ==
    IF current_count >= daily_goal /\ ~m.ach["daily_goal"].unlocked
    THEN LET m1 == UnlockNew(m, "daily_goal", now)
         IN [m1 EXCEPT !.stored = to_dict(m1.ach)]
    ELSE m

(* morning_count and night_count of check_time_based_achievements *)
morning_count(log_times) ==
    Cardinality({i \in 1..Len(log_times) : log_times[i].hour < MorningHour})

night_count(log_times) ==
    Cardinality({i \in 1..Len(log_times) : log_times[i].hour >= NightHour})

(* the "good intervals" loop of check_time_based_achievements, lines 512-517,
   over the sorted times of one day *)
good_intervals(times) ==
    Cardinality({i \in 2..Len(times) : times[i] - times[i - 1] >= ConsistencyGapHours})

(* the sorted hours of the logs of one day: days[day_key] after times.sort() *)
TimesOfDay(log_times, d) ==
    SortSeq([i \in 1..Len(SelectSeq(log_times, LAMBDA t : t.day = d)) |->
                 SelectSeq(log_times, LAMBDA t : t.day = d)[i].hour],
            LAMBDA x, y : x < y)

consistent_days(log_times) ==
    Cardinality({d \in {log_times[i].day : i \in 1..Len(log_times)} :
                    /\ Len(TimesOfDay(log_times, d)) >= ConsistencyMinLogs
                    /\ good_intervals(TimesOfDay(log_times, d)) >= ConsistencyGoodIntervals})

(* the three blocks of check_time_based_achievements, in their order *)
TimeBasedIds == <<"morning_person", "night_owl", "consistency">>

TimeBasedWanted(log_times, id) ==
    CASE id = "morning_person" -> morning_count(log_times) >= TimeBasedCount
      [] id = "night_owl" -> night_count(log_times) >= TimeBasedCount
      [] id = "consistency" -> consistent_days(log_times) >= 1

(* the ids whose condition holds on log_times *)
TimeBasedReached(log_times) ==
    {TimeBasedIds[i] : i \in {j \in 1..Len(TimeBasedIds) :
                                 TimeBasedWanted(log_times, TimeBasedIds[j])}}

(* AchievementManager.check_time_based_achievements: the block of each achievement
   that is still locked parses every timestamp, and raises on one that does not
   parse before it unlocks anything *)
check_time_based_achievements(m, log_times, now) ==
    IF Len(log_times) < TimeBasedMinLogs THEN m
    ELSE IF /\ \E i \in 1..Len(log_times) : ~log_times[i].ok
            /\ \E j \in 1..Len(TimeBasedIds) : ~m.ach[TimeBasedIds[j]].unlocked
    THEN [m EXCEPT !.raised = TRUE]
    ELSE SaveIfNew(m, UnlockEach(m, TimeBasedIds, TimeBasedReached(log_times), now))

(* update_achievements, lines 663-666: not reached when check_streak_achievements raised *)
daily_goal_stage(m, S, now) ==
    IF m.raised THEN m
    ELSE check_daily_goal_achievement(m, S.log_count, S.daily_goal, now)

(* update_achievements, lines 668-669: not reached when check_streak_achievements raised *)
time_based_stage(m, S, now) ==
    IF m.raised THEN m ELSE check_time_based_achievements(m, S.log_times, now)

(* update_achievements, line 687: the list is returned only when nothing raised *)
returned(m) == IF m.raised THEN [m EXCEPT !.newly = <<>>] ELSE m

(* AchievementManager.update_achievements.  parent() of the manager is None, so no
   todo widget is found and check_todo_achievements is not reached from here. *)
update_achievements(A, S, td, now) ==
    returned(
        time_based_stage(
            daily_goal_stage(
                check_streak_achievements(
                    check_count_achievements(Manager(A, S.achievements),
                                             SumValues(S.history) + S.log_count, now),
                    S.history, S.daily_goal, td, now),
                S, now),
            S, now))

------------------------------------------------------------------------------
(* ProfileSystem: dialogs/profile_system.py *)

NoNotification == "none"

(* ProfileSystem._process_notification_queue on [queue, active] *)
process_notification_queue(q) ==
    IF q.active # NoNotification \/ q.queue = <<>>
    THEN q
    ELSE [queue |-> Tail(q.queue), active |-> Head(q.queue)]

(* ProfileSystem.update_achievements after the manager's call gave r: the try body
   queues what the manager returned and processes the queue; the except branch
   returns [] *)
announce(w, r) ==
    LET w1 == [w EXCEPT !.achievements = r.ach, !.settings.achievements = r.stored]
        q == process_notification_queue(
                 [queue |-> w.queue \o r.newly, active |-> w.active])
    IN IF r.raised THEN w1
       ELSE [w1 EXCEPT !.queue = q.queue, !.active = q.active]

(* ProfileSystem.update_achievements on the world w *)
profile_update_achievements(w, td, now) ==
    announce(w, update_achievements(w.achievements, w.settings, td, now))

------------------------------------------------------------------------------
(* MainWindow: core/main_window.py.  The operations act on the world
   [settings, count, goal, achievements, queue, active]. *)

World ==
    [settings |-> settings, count |-> hydration_log_count, goal |-> daily_hydration_goal,
     achievements |-> achievements, queue |-> notification_queue,
     active |-> active_notification]

Commit(w) ==
    /\ settings' = w.settings
    /\ hydration_log_count' = w.count
    /\ daily_hydration_goal' = w.goal
    /\ achievements' = w.achievements
    /\ notification_queue' = w.queue
    /\ active_notification' = w.active

(* log_times[:100], the oldest entries, when the list is longer than 100 *)
KeepRecent_oldest(log_times) ==
    IF Len(log_times) > LogTimesCap THEN SubSeq(log_times, 1, LogTimesCap) ELSE log_times

(* log_times[-100:] when the list is longer than 100 *)
KeepRecent(log_times) ==
    IF Len(log_times) > LogTimesCap
    THEN SubSeq(log_times, Len(log_times) - LogTimesCap + 1, Len(log_times))
    ELSE log_times

(* MainWindow.save_settings, with SettingsManager.update_last_log_date *)
save_settings(w, now) ==
    [w EXCEPT !.settings.daily_goal = w.goal,
              !.settings.log_count = w.count,
              !.settings.last_log_date = now,
              !.settings.log_times = KeepRecent(Append(@, now))]

(* datetime.fromisoformat(last_log_date_str).date(), today when it does not parse *)
last_date(S, td) == IF S.last_log_date.ok THEN S.last_log_date.day ELSE td

(* check_daily_reset archiving the count under today's date *)
check_daily_reset_today_key(w, td, now, has_profile) ==
    IF last_date(w.settings, td) < td
    THEN LET w1 == IF w.count > 0
                   THEN [w EXCEPT !.settings.history = DictSet(@, DateStr(td), w.count)]
                   ELSE w
             w2 == [w1 EXCEPT !.count = 0, !.settings.last_log_date = now]
             w3 == save_settings(w2, now)
         IN IF has_profile THEN profile_update_achievements(w3, td, now) ELSE w3
    ELSE w

(* check_daily_reset archiving whatever the count is and leaving last_log_date stale *)
check_daily_reset_unguarded(w, td, now, has_profile) ==
    IF last_date(w.settings, td) < td
    THEN LET w1 == [w EXCEPT !.settings.history =
                        DictSet(@, DateStr(last_date(w.settings, td)), w.count)]
             w2 == [w1 EXCEPT !.count = 0, !.settings.log_count = 0]
         IN IF has_profile THEN profile_update_achievements(w2, td, now) ELSE w2
    ELSE w

(* MainWindow.check_daily_reset; has_profile is hasattr(self, 'profile_system') *)
check_daily_reset(w, td, now, has_profile) ==
    IF last_date(w.settings, td) < td
    THEN LET w1 == IF w.count > 0
                   THEN [w EXCEPT !.settings.history =
                            DictSet(@, DateStr(last_date(w.settings, td)), w.count)]
                   ELSE w
             w2 == [w1 EXCEPT !.count = 0, !.settings.last_log_date = now]
             w3 == save_settings(w2, now)
         IN IF has_profile THEN profile_update_achievements(w3, td, now) ELSE w3
    ELSE w

(* HistoryWindow.plot_history: `get("history") or {}` is the stored dict itself unless
   it is empty, and the assignment of today's count goes into that dict *)
plot_history(w, td) ==
    IF w.settings.history # <<>>
    THEN [w EXCEPT !.settings.history = DictSet(@, DateStr(td), w.count)]
    ELSE w

(* history_updated.emit(); connected is whether a HistoryWindow listens to it *)
emit_history_updated(w, td, connected) ==
    IF connected THEN plot_history(w, td) ELSE w

(* MainWindow.log_drink *)
log_drink(w, td, now, connected) ==
    emit_history_updated(
        profile_update_achievements(
            save_settings([w EXCEPT !.count = Min(w.count + 1, w.goal)], now),
            td, now),
        td, connected)

(* the streak loop reading today's count from history like any other day *)
RECURSIVE streak_from_history_only(_, _, _, _)
streak_from_history_only(history, log_count, td, day) ==
    LET count == DictGet(history, DateStr(day), 0)
    IN IF count > 0 THEN 1 + streak_from_history_only(history, log_count, td, day - 1) ELSE 0

(* MainWindow.update_stats: the streak loop, lines 400-408 *)
RECURSIVE streak_from(_, _, _, _)
streak_from(history, log_count, td, day) ==
    LET count == IF day = td THEN log_count ELSE DictGet(history, DateStr(day), 0)
    IN IF count > 0 THEN 1 + streak_from(history, log_count, td, day - 1) ELSE 0

update_stats_streak(w, td) == streak_from(w.settings.history, w.count, td, td)

------------------------------------------------------------------------------
(* The stored settings.json the process starts from *)

StartHour == NightHour + 1

(* a log at noon of the day before the start *)
EarlierLog == StampStr(-1, 12)

Repeat(stamp, n) == [i \in 1..n |-> stamp]

(* every history with chronologically inserted keys among the days from..-1,
   one drink on each day it holds *)
RECURSIVE HistoriesFrom(_)
HistoriesFrom(from) ==
    IF from > -1 THEN {<<>>}
    ELSE LET rest == HistoriesFrom(from + 1)
         IN rest \cup {<<[k |-> DateStr(from), v |-> 1]>> \o h : h \in rest}

RunOfDays(from, count) == [i \in 1..(-from) |-> [k |-> DateStr(from + i - 1), v |-> count]]

Document(goal, count, last, history, log_times) ==
    [daily_goal |-> goal, log_count |-> count, last_log_date |-> last,
     history |-> history, log_times |-> log_times, achievements |-> {}]

(* documents left by earlier runs of the program, last saved on the day of the start *)
OrdinaryDocuments ==
    {Document(goal, count, StampStr(0, 0), history, Repeat(EarlierLog, 2)) :
        goal \in SliderMinGoal..MaxGoal, count \in 0..1, history \in HistoriesFrom(-2)}

(* documents last saved the day before the start, or with a date that does not parse *)
StaleDocuments ==
    {Document(MaxGoal, count, last, history, Repeat(EarlierLog, 2)) :
        count \in 0..1, last \in {StampStr(-1, 12), BadStampStr},
        history \in {<<>>, <<[k |-> DateStr(-2), v |-> 1]>>}}

(* documents with a long history, a large total, many logged times, or entries
   that do not parse *)
SpecialDocuments ==
    {Document(1, 0, StampStr(0, 0), RunOfDays(-PerfectWeekDays, 1),
              Repeat(EarlierLog, 2)),
     Document(1, 0, StampStr(0, 0), <<[k |-> DateStr(-1), v |-> Drinks100 - 1]>>,
              Repeat(EarlierLog, 2)),
     Document(1, 0, StampStr(0, 0), <<[k |-> BadDateStr, v |-> 1]>>,
              Repeat(EarlierLog, 2)),
     Document(1, 0, StampStr(0, 0), <<>>, Repeat(StampStr(-1, 0), TimeBasedCount - 1)),
     Document(1, 0, StampStr(0, 0), <<>>, Repeat(StampStr(-1, StartHour), TimeBasedCount - 1)),
     Document(1, 0, StampStr(0, 0), <<>>,
              Repeat(StampStr(-1, 0), TimeBasedCount - 2) \o <<BadStampStr>>)}

StoredDocuments == OrdinaryDocuments \cup StaleDocuments \cup SpecialDocuments

(* MainWindow.__init__ on the loaded document: check_daily_reset runs before the
   profile system is installed *)
Constructed(doc) ==
    check_daily_reset(
        [settings |-> doc, count |-> doc.log_count, goal |-> doc.daily_goal,
         achievements |-> create_default_achievements, queue |-> <<>>,
         active |-> NoNotification],
        0, StampStr(0, StartHour), FALSE)

(* the process started on one of the documents docs *)
StartedOn(docs) ==
    /\ today = 0
    /\ hour = StartHour
    /\ \E w \in {Constructed(doc) : doc \in docs} :
          /\ settings = w.settings
          /\ hydration_log_count = w.count
          /\ daily_hydration_goal = w.goal
          /\ achievements = w.achievements
          /\ notification_queue = w.queue
          /\ active_notification = w.active
    /\ daily_reset_timers = {1}
    /\ startup_check_pending = TRUE
    /\ history_connected = FALSE

(* MainWindow.init_data, lines 72-74, on a document with min_minutes = max_minutes *)
ReminderInit ==
    /\ min_hydration_interval = DefaultMinMinutes
    /\ max_hydration_interval = DefaultMinMinutes
    /\ snooze_duration = DefaultSnoozeMinutes
    /\ current_reminder_interval = DefaultMinMinutes * SecondsPerMinute
    /\ reminder_elapsed = 0
    /\ reminder_timer_active = TRUE
    /\ current_reminder = FALSE
    /\ armed_by = "schedule_reminder"
    /\ classroom_elapsed = -1
    /\ reminder_monotonic_elapsed = 0

(* the processes that may be launched *)
Procs == 1..MaxLaunches

(* process 1 went through main() alone and runs the window; no other was launched *)
LaunchInit ==
    /\ pc = [p \in Procs |-> IF p = 1 THEN "running" ELSE "idle"]
    /\ socket_file = [exists |-> TRUE, owner |-> 1]
    /\ listening = [p \in Procs |-> p = 1]
    /\ sent_raise = [p \in Procs |-> FALSE]

(* the settings hold no 'daily_task_completions' and check_todo_achievements has not
   been called *)
AchievementCheckInit ==
    /\ daily_task_completions = <<>>
    /\ newly_unlocked = <<>>

(* no WaterLevelWidget was created, and settings.json is as the settings manager
   holds it *)
WaterLevelInit ==
    /\ water_level = [exists |-> FALSE, target_drinks |-> 0, current_log_count |-> 0]
    /\ disk_reset = FALSE

(* ... and the settings hold no 'todos' *)
TaskInit ==
    /\ AchievementCheckInit
    /\ WaterLevelInit
    /\ stored_todos = <<>>
    /\ modified = FALSE

(* no settings.json is being loaded: the document is in memory *)
LoadInit ==
    /\ settings_file = [exists |-> FALSE, valid |-> FALSE, doc |-> <<>>]
    /\ loaded_settings = [done |-> FALSE, settings |-> <<>>]

(* MainWindow.__init__ returned and app.exec_() runs; the to-do list was not opened *)
WindowInit ==
    /\ window = "running"
    /\ todo_list = FALSE
    /\ todos = <<>>
    /\ quick_add_edit = <<>>

Init == StartedOn(StoredDocuments) /\ ReminderInit /\ LoadInit /\ WindowInit /\ LaunchInit /\ TaskInit

------------------------------------------------------------------------------
(* Event handlers *)

Stale == last_date(settings, today) < today

(* every save appends one timestamp: the saves of this run are the entries of
   log_times dated from the start on *)
SavesSoFar ==
    Cardinality({i \in 1..Len(settings.log_times) :
                    settings.log_times[i].ok /\ settings.log_times[i].day >= 0})

CanSave == SavesSoFar < MaxSaves

(* the clock passes midnight; the midnight timer and the per-second poll have run
   before the next midnight *)
NewDay ==
    /\ today < MaxDay
    /\ ~Stale
    /\ \A d \in daily_reset_timers : d > today
    /\ today' = today + 1
    /\ hour' = 0
    /\ UNCHANGED <<settings, hydration_log_count, daily_hydration_goal, achievements,
                   notification_queue, active_notification, daily_reset_timers,
                   startup_check_pending, history_connected>>
    /\ UNCHANGED other_vars

(* MainWindow.log_drink, from the Log button, the tray menu or the reminder dialog *)
LogDrink ==
    /\ CanSave
    /\ Commit(log_drink(World, today, Now, history_connected))
    /\ UNCHANGED <<today, hour, daily_reset_timers, startup_check_pending,
                   history_connected>>
    /\ UNCHANGED other_vars

(* MainWindow.update_timer, every second: perform_daily_reset when the stored date is
   stale, which also creates a new daily_reset_timer *)
UpdateTimer ==
    /\ Stale
    /\ CanSave
    /\ Commit(check_daily_reset(World, today, Now, TRUE))
    /\ daily_reset_timers' = daily_reset_timers \cup {today + 1}
    /\ UNCHANGED <<today, hour, startup_check_pending, history_connected>>
    /\ UNCHANGED other_vars

(* MainWindow.perform_daily_reset, from a daily_reset_timer that is due *)
DailyResetTimer ==
    /\ \E d \in daily_reset_timers :
          /\ d <= today
          /\ daily_reset_timers' = (daily_reset_timers \ {d}) \cup {today + 1}
    /\ Stale => CanSave
    /\ Commit(check_daily_reset(World, today, Now, TRUE))
    /\ UNCHANGED <<today, hour, startup_check_pending, history_connected>>
    /\ UNCHANGED other_vars

(* SettingsDialog.save_settings with the daily goal slider at goal *)
SaveSettingsDialog ==
    /\ CanSave
    /\ \E goal \in SliderMinGoal..MaxGoal :
          Commit(save_settings([World EXCEPT !.goal = goal], Now))
    /\ UNCHANGED <<today, hour, daily_reset_timers, startup_check_pending,
                   history_connected>>
    /\ UNCHANGED other_vars

(* DataPage.clear_history, confirmed *)
ClearHistory ==
    /\ CanSave
    /\ Commit(save_settings([World EXCEPT !.settings.history = <<>>], Now))
    /\ UNCHANGED <<today, hour, daily_reset_timers, startup_check_pending,
                   history_connected>>
    /\ UNCHANGED other_vars

(* DataPage.reset_today_count, confirmed *)
ResetTodayCount ==
    /\ CanSave
    /\ Commit(save_settings([World EXCEPT !.count = 0], Now))
    /\ UNCHANGED <<today, hour, daily_reset_timers, startup_check_pending,
                   history_connected>>
    /\ UNCHANGED other_vars

(* MainWindow.show_history: HistoryWindow.__init__ plots and connects plot_history
   to history_updated *)
ShowHistory ==
    /\ Commit(plot_history(World, today))
    /\ history_connected' = TRUE
    /\ UNCHANGED <<today, hour, daily_reset_timers, startup_check_pending>>
    /\ UNCHANGED other_vars

(* the QTimer.singleShot(1000, self.update_achievements) of ProfileSystem.__init__ *)
StartupAchievementCheck ==
    /\ startup_check_pending
    /\ startup_check_pending' = FALSE
    /\ Commit(profile_update_achievements(World, today, Now))
    /\ UNCHANGED <<today, hour, daily_reset_timers, history_connected>>
    /\ UNCHANGED other_vars

(* on_notification_finished, 5.5 s after a notification was shown *)
NotificationFinished ==
    /\ active_notification # NoNotification
    /\ active_notification' = NoNotification
    /\ UNCHANGED <<today, hour, settings, hydration_log_count, daily_hydration_goal,
                   achievements, notification_queue, daily_reset_timers,
                   startup_check_pending, history_connected>>
    /\ UNCHANGED other_vars

(* the _process_notification_queue scheduled 500 ms after a notification finished *)
ProcessNotificationQueue ==
    /\ active_notification = NoNotification
    /\ notification_queue # <<>>
    /\ LET q == process_notification_queue(
                    [queue |-> notification_queue, active |-> active_notification])
       IN /\ notification_queue' = q.queue
          /\ active_notification' = q.active
    /\ UNCHANGED <<today, hour, settings, hydration_log_count, daily_hydration_goal,
                   achievements, daily_reset_timers, startup_check_pending,
                   history_connected>>
    /\ UNCHANGED other_vars

Next ==
    \/ NewDay
    \/ LogDrink
    \/ UpdateTimer
    \/ DailyResetTimer
    \/ SaveSettingsDialog
    \/ ClearHistory
    \/ ResetTodayCount
    \/ ShowHistory
    \/ StartupAchievementCheck
    \/ NotificationFinished
    \/ ProcessNotificationQueue

Spec == Init /\ [][Next]_vars

------------------------------------------------------------------------------
(* The program started on a settings.json whose history keys are not in
   chronological order: json.load keeps the order of the file *)

InsertAt(seq, pos, item) ==
    SubSeq(seq, 1, pos - 1) \o <<item>> \o SubSeq(seq, pos, Len(seq))

(* the PerfectWeekDays days ending on day last, each with count *)
WeekEnding(last, count) ==
    [i \in 1..PerfectWeekDays |-> [k |-> DateStr(last - PerfectWeekDays + i), v |-> count]]

(* a week at the goal ending the day before yesterday, and yesterday below the
   goal, with yesterday's entry at any place of the insertion order *)
ReorderedDocuments ==
    {Document(MaxGoal, 0, StampStr(0, 0),
              InsertAt(WeekEnding(-2, MaxGoal), pos, [k |-> DateStr(-1), v |-> MaxGoal - 1]),
              Repeat(EarlierLog, 2)) : pos \in 1..(PerfectWeekDays + 1)}

InitReordered ==
    StartedOn(ReorderedDocuments) /\ ReminderInit /\ LoadInit /\ WindowInit /\ LaunchInit /\ TaskInit

ReorderedSpec == InitReordered /\ [][Next]_vars

------------------------------------------------------------------------------
(* The reminder scheduler: core/main_window.py *)

ClassroomSeconds == ClassroomMinutes * SecondsPerMinute

(* reminder_timer.start(seconds * 1000), called from the method by *)
StartTimer(seconds, by) ==
    /\ current_reminder_interval' = seconds
    /\ reminder_elapsed' = 0
    /\ reminder_timer_active' = TRUE
    /\ armed_by' = by

(* schedule_reminder drawing from lo..hi+1, as with an exclusive upper bound *)
schedule_reminder_past_max(lo, hi) ==
    /\ \E interval_minutes \in lo..(hi + 1) :
          StartTimer(interval_minutes * SecondsPerMinute, "schedule_reminder")
    /\ reminder_monotonic_elapsed' = 0

(* MainWindow.schedule_reminder with the bounds lo and hi: random.randint(lo, hi)
   minutes, in seconds *)
schedule_reminder(lo, hi) ==
    /\ \E interval_minutes \in lo..hi :
          StartTimer(interval_minutes * SecondsPerMinute, "schedule_reminder")
    /\ reminder_monotonic_elapsed' = 0

(* a minute passes and reminder_timer does not time out before its end *)
Tick ==
    /\ reminder_timer_active => reminder_elapsed + SecondsPerMinute <= current_reminder_interval
    /\ reminder_elapsed' = reminder_elapsed + SecondsPerMinute
    /\ classroom_elapsed' =
          IF classroom_elapsed < 0 \/ classroom_elapsed >= ClassroomSeconds
          THEN -1
          ELSE classroom_elapsed + SecondsPerMinute
    /\ reminder_monotonic_elapsed' =
          Min(reminder_monotonic_elapsed + SecondsPerMinute, ClassroomSeconds)
    /\ UNCHANGED <<min_hydration_interval, max_hydration_interval, snooze_duration,
                   current_reminder_interval, reminder_timer_active, current_reminder,
                   armed_by>>
    /\ UNCHANGED hydration_vars
    /\ UNCHANGED beside_reminder_vars

(* MainWindow.show_reminder, the slot of reminder_timer.timeout: closes a reminder
   still shown, shows a new one, and ends with schedule_reminder() *)
ShowReminder ==
    /\ reminder_timer_active
    /\ reminder_elapsed = current_reminder_interval
    /\ current_reminder' = TRUE
    /\ schedule_reminder(min_hydration_interval, max_hydration_interval)
    /\ UNCHANGED <<min_hydration_interval, max_hydration_interval, snooze_duration,
                   classroom_elapsed>>
    /\ UNCHANGED hydration_vars
    /\ UNCHANGED beside_reminder_vars

(* MainWindow.snooze_reminder on the timer *)
snooze_reminder ==
    /\ StartTimer(snooze_duration * SecondsPerMinute, "snooze_reminder")
    /\ reminder_monotonic_elapsed' = 0
    /\ classroom_elapsed' = -1
    /\ UNCHANGED <<min_hydration_interval, max_hydration_interval, snooze_duration>>

(* MainWindow.snooze_reminder from the Snooze button of the main window *)
SnoozeReminder ==
    /\ snooze_reminder
    /\ UNCHANGED current_reminder
    /\ UNCHANGED hydration_vars
    /\ UNCHANGED beside_reminder_vars

(* MainWindow._handle_snooze, the Snooze button of the reminder dialog *)
HandleSnooze ==
    /\ current_reminder
    /\ current_reminder' = FALSE
    /\ snooze_reminder
    /\ UNCHANGED hydration_vars
    /\ UNCHANGED beside_reminder_vars

(* MainWindow._handle_drink, the Drink button of the reminder dialog: closes the
   dialog and calls log_drink, which leaves reminder_timer as it is *)
HandleDrink ==
    /\ current_reminder
    /\ current_reminder' = FALSE
    /\ CanSave
    /\ Commit(log_drink(World, today, Now, history_connected))
    /\ UNCHANGED <<today, hour, daily_reset_timers, startup_check_pending,
                   history_connected>>
    /\ UNCHANGED <<min_hydration_interval, max_hydration_interval, snooze_duration,
                   current_reminder_interval, reminder_elapsed, reminder_timer_active,
                   armed_by, classroom_elapsed, reminder_monotonic_elapsed>>
    /\ UNCHANGED beside_reminder_vars

(* MainWindow.classroom_mode; reminder_monotonic_start is not assigned *)
ClassroomMode ==
    /\ StartTimer(ClassroomSeconds, "classroom_mode")
    /\ classroom_elapsed' = 0
    /\ UNCHANGED <<min_hydration_interval, max_hydration_interval, snooze_duration,
                   current_reminder, reminder_monotonic_elapsed>>
    /\ UNCHANGED hydration_vars
    /\ UNCHANGED beside_reminder_vars

(* SettingsDialog.save_settings with the interval sliders at lo and hi: refused when
   lo > hi; MainWindow.save_settings stores them as min_minutes and max_minutes *)
SaveIntervalsDialog ==
    /\ CanSave
    /\ \E lo, hi \in SliderMinInterval..MaxMinutes :
          /\ lo <= hi
          /\ min_hydration_interval' = lo
          /\ max_hydration_interval' = hi
    /\ Commit(save_settings(World, Now))
    /\ UNCHANGED <<today, hour, daily_reset_timers, startup_check_pending,
                   history_connected>>
    /\ UNCHANGED <<snooze_duration, current_reminder_interval, reminder_elapsed,
                   reminder_timer_active, current_reminder, armed_by, classroom_elapsed,
                   reminder_monotonic_elapsed>>
    /\ UNCHANGED beside_reminder_vars

(* MainWindow.reload_settings, the slot of settings_dialog.finished: reads the
   document back into the window, then reminder_timer.stop() and schedule_reminder() *)
ReloadSettings ==
    /\ hydration_log_count' = settings.log_count
    /\ daily_hydration_goal' = settings.daily_goal
    /\ schedule_reminder(min_hydration_interval, max_hydration_interval)
    /\ UNCHANGED <<min_hydration_interval, max_hydration_interval, snooze_duration,
                   current_reminder, classroom_elapsed>>
    /\ UNCHANGED <<today, hour, settings, achievements, notification_queue,
                   active_notification, daily_reset_timers, startup_check_pending,
                   history_connected>>
    /\ UNCHANGED beside_reminder_vars

(* MainWindow.get_countdown_progress: min(max(elapsed / interval, 0.0), 1.0) as the
   ratio num / den, 0.0 without a positive interval *)
get_countdown_progress ==
    IF current_reminder_interval > 0
    THEN [num |-> Min(reminder_monotonic_elapsed, current_reminder_interval),
          den |-> current_reminder_interval]
    ELSE [num |-> 0, den |-> 1]

(* the window started on a document with an empty history *)
ReminderDocuments ==
    {Document(MaxGoal, 0, StampStr(0, 0), <<>>, Repeat(EarlierLog, 2))}

InitReminder ==
    StartedOn(ReminderDocuments) /\ ReminderInit /\ LoadInit /\ WindowInit /\ LaunchInit /\ TaskInit

NextReminder ==
    \/ Tick
    \/ ShowReminder
    \/ SnoozeReminder
    \/ HandleSnooze
    \/ HandleDrink
    \/ LogDrink
    \/ ClassroomMode
    \/ SaveIntervalsDialog
    \/ ReloadSettings

ReminderSpec == InitReminder /\ [][NextReminder]_vars

------------------------------------------------------------------------------
(* SettingsManager.load_settings: core/settings_manager.py.  A JSON object is a
   function from its keys to their values. *)

(* SettingsManager.default_settings, four of its keys *)
default_settings ==
    [min_minutes |-> DefaultMinMinutes, daily_goal |-> DefaultDailyGoal,
     log_count |-> 0, theme |-> "Ocean"]

(* load_settings with the stored values taking the place of the defaults' *)
merge_defaults_over(stored) ==
    [key \in DOMAIN stored \cup DOMAIN default_settings |->
        IF key \in DOMAIN default_settings THEN default_settings[key] ELSE stored[key]]

(* the loop `for key, value in self.default_settings.items()` over the parsed object *)
merge_defaults(stored) ==
    [key \in DOMAIN stored \cup DOMAIN default_settings |->
        IF key \in DOMAIN stored THEN stored[key] ELSE default_settings[key]]

(* SettingsManager.load_settings *)
load_settings(file) ==
    IF file.exists /\ file.valid THEN merge_defaults(file.doc) ELSE default_settings

(* values a settings.json may hold under a key; log_times is not among the defaults *)
StoredValues(key) ==
    CASE key = "min_minutes" -> {SliderMinInterval, DefaultMinMinutes}
      [] key = "daily_goal" -> {MaxGoal, DefaultDailyGoal}
      [] key = "log_count" -> {0, 1}
      [] key = "theme" -> {"Ocean", "Dark"}
      [] key = "log_times" -> {<<>>, <<EarlierLog>>}

(* the JSON objects that extend one of objs by at most the key *)
WithOptional(objs, key) ==
    objs \cup {[k \in DOMAIN obj \cup {key} |-> IF k = key THEN value ELSE obj[k]] :
                  obj \in objs, value \in StoredValues(key)}

(* the JSON objects holding any subset of the keys *)
StoredObjects ==
    WithOptional(WithOptional(WithOptional(WithOptional(WithOptional(
        {<<>>}, "min_minutes"), "daily_goal"), "log_count"), "theme"), "log_times")

SettingsFiles ==
    {[exists |-> TRUE, valid |-> TRUE, doc |-> doc] : doc \in StoredObjects}
        \cup {[exists |-> TRUE, valid |-> FALSE, doc |-> <<>>],
              [exists |-> FALSE, valid |-> FALSE, doc |-> <<>>]}

InitLoad ==
    /\ StartedOn(ReminderDocuments)
    /\ ReminderInit
    /\ settings_file \in SettingsFiles
    /\ loaded_settings = [done |-> FALSE, settings |-> <<>>]
    /\ WindowInit
    /\ LaunchInit
    /\ TaskInit

(* SettingsManager.__init__: self.settings = self.load_settings() *)
LoadSettings ==
    /\ ~loaded_settings.done
    /\ loaded_settings' = [done |-> TRUE, settings |-> load_settings(settings_file)]
    /\ UNCHANGED settings_file
    /\ UNCHANGED <<hydration_vars, reminder_vars, window_vars, todo_vars, launch_vars, task_vars>>

NextLoad == LoadSettings

LoadSpec == InitLoad /\ [][NextLoad]_vars

------------------------------------------------------------------------------
(* MainWindow.update_progress_ring and the construction that first calls it *)

(* MainWindow.update_progress_ring: progress = min(count / goal, 1.0), a ratio num / den;
   the division raises ZeroDivisionError when the goal is 0 *)
update_progress_ring(count, goal) ==
    IF goal = 0
    THEN [raised |-> TRUE, num |-> 0, den |-> 0]
    ELSE [raised |-> FALSE, num |-> Min(count, goal), den |-> goal]

(* stored documents with a daily_goal of 0 and of the slider's range *)
ZeroGoalDocuments ==
    {Document(goal, count, StampStr(0, 0), <<>>, Repeat(EarlierLog, 2)) :
        goal \in 0..MaxGoal, count \in 0..1}

(* MainWindow.__init__ after check_daily_reset (line 58) *)
InitZeroGoal ==
    /\ StartedOn(ZeroGoalDocuments)
    /\ ReminderInit
    /\ LoadInit
    /\ window = "starting"
    /\ todo_list = FALSE
    /\ todos = <<>>
    /\ quick_add_edit = <<>>
    /\ LaunchInit
    /\ TaskInit

(* the rest of MainWindow.__init__: apply_theme (line 65) ends with
   update_progress_ring (line 357); main() catches nothing *)
FinishConstruction ==
    /\ window = "starting"
    /\ window' = IF update_progress_ring(hydration_log_count, daily_hydration_goal).raised
                 THEN "crashed" ELSE "running"
    /\ UNCHANGED <<hydration_vars, reminder_vars, load_vars, todo_vars, launch_vars, task_vars>>

(* the handlers of the running window *)
NextZeroGoal ==
    \/ FinishConstruction
    \/ window = "running" /\ Next

ZeroGoalSpec == InitZeroGoal /\ [][NextZeroGoal]_vars

------------------------------------------------------------------------------
(* Python str methods on sequences of characters *)

RECURSIVE lstrip(_)
lstrip(str) ==
    IF str # <<>> /\ Head(str) = " " THEN lstrip(Tail(str)) ELSE str

RECURSIVE rstrip(_)
rstrip(str) ==
    IF str # <<>> /\ str[Len(str)] = " " THEN rstrip(SubSeq(str, 1, Len(str) - 1)) ELSE str

(* str.strip() *)
strip(str) == rstrip(lstrip(str))

(* str.startswith(prefix) *)
startswith(str, prefix) ==
    Len(str) >= Len(prefix) /\ SubSeq(str, 1, Len(prefix)) = prefix

(* str.endswith(suffix) *)
endswith(str, suffix) ==
    Len(str) >= Len(suffix) /\ SubSeq(str, Len(str) - Len(suffix) + 1, Len(str)) = suffix

(* sub in str *)
contains(str, sub) ==
    \E i \in 1..(Len(str) - Len(sub) + 1) : SubSeq(str, i, i + Len(sub) - 1) = sub

(* str.replace(old, ""): every occurrence of old, left to right, is removed *)
RECURSIVE remove(_, _)
remove(str, old) ==
    IF old = <<>> \/ Len(str) < Len(old) THEN str
    ELSE IF startswith(str, old) THEN remove(SubSeq(str, Len(old) + 1, Len(str)), old)
    ELSE <<Head(str)>> \o remove(Tail(str), old)

(* the first word of a str that starts with a character other than a space *)
RECURSIVE first_word(_)
first_word(str) ==
    IF str = <<>> \/ Head(str) = " " THEN <<>> ELSE <<Head(str)>> \o first_word(Tail(str))

(* str.split(): the words between runs of spaces *)
RECURSIVE split(_)
split(str) ==
    IF lstrip(str) = <<>> THEN <<>>
    ELSE <<first_word(lstrip(str))>>
             \o split(SubSeq(lstrip(str), Len(first_word(lstrip(str))) + 1, Len(lstrip(str))))

(* str.lower() on the letters used *)
lower(str) ==
    [i \in 1..Len(str) |-> IF str[i] = "B" THEN "b" ELSE IF str[i] = "T" THEN "t" ELSE str[i]]

------------------------------------------------------------------------------
(* TodoItem and TodoListWidget: widgets/todo_widget.py.  The ids of the items are
   distinct, so that an id stands for a position in the list. *)

(* repeat_option None *)
NoRepeat == "none"

(* TodoItem.__init__ with its defaults *)
TodoItem(text, priority, tags, deadline) ==
    [text |-> text, completed |-> FALSE, priority |-> priority, tags |-> tags,
     completed_at |-> NoDate, deadline |-> deadline, category |-> "Personal",
     repeat_option |-> NoRepeat]

(* TodoListWidget.create_sample_todos *)
create_sample_todos(td) ==
    <<[TodoItem(<<"D", "r", "i", "n", "k", " ", "8", " ", "g", "l", "a", "s", "s", "e", "s", " ", "o", "f", " ", "w", "a", "t", "e", "r">>,
               "High", <<<<"h", "e", "a", "l", "t", "h">>, <<"d", "a", "i", "l", "y">>>>, StampStr(td, QuickAddDeadlineHour))
          EXCEPT !.category = "Health"],
      TodoItem(<<"A", "d", "d", " ", "y", "o", "u", "r", " ", "o", "w", "n", " ", "t", "a", "s", "k", "s", " ", "h", "e", "r", "e">>,
               "Medium", <<>>, NoDate),
      [TodoItem(<<"C", "u", "s", "t", "o", "m", "i", "z", "e", " ", "a", "p", "p", " ", "s", "e", "t", "t", "i", "n", "g", "s">>,
               "Low", <<>>, StampStr(td + 1, SampleDeadlineHour))
          EXCEPT !.category = "Other"]>>

(* TodoListWidget.load_todos without a settings manager *)
load_todos(td) == create_sample_todos(td)

(* TodoItem.toggle_completed *)
toggle_completed(todo, now) ==
    [todo EXCEPT !.completed = ~@, !.completed_at = IF ~todo.completed THEN now ELSE NoDate]

(* TodoListWidget.on_task_completed for the item at position pos; save_todos returns
   at once without a settings manager *)
on_task_completed(list, pos, completed, now) ==
    [list EXCEPT ![pos].completed = completed,
                 ![pos].completed_at = IF completed THEN now ELSE NoDate]

(* TodoDetailDialog.save_changes with the title as loaded and the 'completed' box at
   checked *)
save_changes(todo, checked) ==
    [todo EXCEPT !.text = strip(@), !.completed = checked]

(* TodoListWidget.on_task_updated: self.todos[i] = updated_todo *)
on_task_updated(list, pos, updated_todo) == [list EXCEPT ![pos] = updated_todo]

(* TodoListWidget.on_task_deleted: self.todos.pop(i) *)
on_task_deleted(list, pos) ==
    SubSeq(list, 1, pos - 1) \o SubSeq(list, pos + 1, Len(list))

(* the quick add markers *)
High == <<"!", "!", "!">>
Medium == <<"!", "!">>
Low == <<"!">>
KwToday == <<"@", "t", "o", "d", "a", "y">>
KwTomorrow == <<"@", "t", "o", "m", "o", "r", "r", "o", "w">>
KwNextWeek == <<"@", "n", "e", "x", "t", "w", "e", "e", "k">>

(* quick_add_task, lines 1494-1503: the priority marker at the end of the text *)
parse_priority(text) ==
    IF endswith(text, High)
    THEN TodoItem(strip(SubSeq(text, 1, Len(text) - 3)), "High", <<>>, NoDate)
    ELSE IF endswith(text, Medium)
    THEN TodoItem(strip(SubSeq(text, 1, Len(text) - 2)), "Medium", <<>>, NoDate)
    ELSE IF endswith(text, Low)
    THEN TodoItem(strip(SubSeq(text, 1, Len(text) - 1)), "Low", <<>>, NoDate)
    ELSE TodoItem(text, "Medium", <<>>, NoDate)

(* the deadline of a keyword found in the text *)
with_deadline(new_todo, keyword, date_val) ==
    [new_todo EXCEPT !.text = strip(remove(@, keyword)),
                     !.deadline = StampStr(date_val, QuickAddDeadlineHour)]

(* quick_add_task, lines 1505-1517: the first of the keywords, in the order of the
   dict, that occurs in text.lower() *)
parse_deadline(new_todo, text, td) ==
    IF contains(lower(text), KwToday) THEN with_deadline(new_todo, KwToday, td)
    ELSE IF contains(lower(text), KwTomorrow) THEN with_deadline(new_todo, KwTomorrow, td + 1)
    ELSE IF contains(lower(text), KwNextWeek)
    THEN with_deadline(new_todo, KwNextWeek, td + NextWeekDays)
    ELSE new_todo

(* quick_add_task, lines 1519-1530: every word that starts with # and has more to it *)
RECURSIVE parse_tags(_, _)
parse_tags(new_todo, words) ==
    IF words = <<>> THEN new_todo
    ELSE IF startswith(Head(words), <<"#">>) /\ Len(Head(words)) > 1
    THEN parse_tags([new_todo EXCEPT !.tags = Append(@, Tail(Head(words))),
                                     !.text = strip(remove(@, Head(words)))],
                    Tail(words))
    ELSE parse_tags(new_todo, Tail(words))

(* the TodoItem that quick_add_task appends for a stripped, non-empty text *)
quick_add_task(text, td) ==
    parse_tags(parse_deadline(parse_priority(text), text, td), split(text))

(* texts typed into the quick add field of the to-do list *)
TodoTexts == {<<"m", "i", "l", "k">>, <<"m", "i", "l", "k", " ", "!">>}

(* MainWindow.open_todo_list, the first time: TodoListWidget(theme=...) *)
OpenTodoList ==
    /\ ~todo_list
    /\ todo_list' = TRUE
    /\ todos' = load_todos(today)
    /\ UNCHANGED quick_add_edit
    /\ UNCHANGED <<hydration_vars, reminder_vars, load_vars, window_vars, launch_vars, task_vars>>

(* the user types into the quick add field *)
TypeQuickAdd ==
    /\ todo_list
    /\ quick_add_edit' \in TodoTexts
    /\ UNCHANGED <<todo_list, todos>>
    /\ UNCHANGED <<hydration_vars, reminder_vars, load_vars, window_vars, launch_vars, task_vars>>

(* TodoListWidget.quick_add_task, on Return or the add button *)
QuickAddTask ==
    /\ todo_list
    /\ Len(todos) < MaxTodos
    /\ \E text \in {strip(quick_add_edit)} :
          /\ text # <<>>
          /\ todos' = Append(todos, quick_add_task(text, today))
    /\ quick_add_edit' = <<>>
    /\ UNCHANGED todo_list
    /\ UNCHANGED <<hydration_vars, reminder_vars, load_vars, window_vars, launch_vars, task_vars>>

(* TodoItemWidget.toggle_completed, from the item's check button: the item toggles
   itself and the completed signal runs on_task_completed *)
ToggleCompleted ==
    /\ todo_list
    /\ \E pos \in 1..Len(todos) :
          \E toggled \in {toggle_completed(todos[pos], Now)} :
             todos' = on_task_completed([todos EXCEPT ![pos] = toggled], pos,
                                        toggled.completed, Now)
    /\ UNCHANGED <<todo_list, quick_add_edit>>
    /\ UNCHANGED <<hydration_vars, reminder_vars, load_vars, window_vars, launch_vars, task_vars>>

(* TodoDetailDialog.save_changes from on_task_details, then on_task_updated; the
   dialog refuses an empty title *)
SaveChanges ==
    /\ todo_list
    /\ \E pos \in 1..Len(todos), checked \in BOOLEAN :
          /\ strip(todos[pos].text) # <<>>
          /\ todos' = on_task_updated(todos, pos, save_changes(todos[pos], checked))
    /\ UNCHANGED <<todo_list, quick_add_edit>>
    /\ UNCHANGED <<hydration_vars, reminder_vars, load_vars, window_vars, launch_vars, task_vars>>

(* TodoDetailDialog.confirm_delete answered Yes, then on_task_deleted *)
DeleteTask ==
    /\ todo_list
    /\ \E pos \in 1..Len(todos) : todos' = on_task_deleted(todos, pos)
    /\ UNCHANGED <<todo_list, quick_add_edit>>
    /\ UNCHANGED <<hydration_vars, reminder_vars, load_vars, window_vars, launch_vars, task_vars>>

NextTodo ==
    \/ OpenTodoList
    \/ TypeQuickAdd
    \/ QuickAddTask
    \/ ToggleCompleted
    \/ SaveChanges
    \/ DeleteTask

TodoSpec == InitReminder /\ [][NextTodo]_vars

------------------------------------------------------------------------------
(* TodoListWidget.quick_add_task on the texts a user may type *)

(* " ".join(tokens) *)
RECURSIVE Join(_)
Join(tokens) ==
    IF tokens = <<>> THEN <<>>
    ELSE IF Len(tokens) = 1 THEN Head(tokens)
    ELSE Head(tokens) \o <<" ">> \o Join(Tail(tokens))

(* the words and markers of the quick add syntax *)
QuickAddTokens ==
    {<<"B", "u", "y">>, <<"m", "i", "l", "k">>, High, Medium, Low, KwToday, KwTomorrow, KwNextWeek,
     <<"#", "e", "r", "r", "a", "n", "d">>}

BuyMilk == <<<<"B", "u", "y">>, <<"m", "i", "l", "k">>, High, KwTomorrow, <<"#", "e", "r", "r", "a", "n", "d">>>>

(* texts of up to MaxTokens tokens, and "Buy milk !!! @tomorrow #errand" *)
QuickAddTexts ==
    {Join(tokens) : tokens \in UNION {[1..n -> QuickAddTokens] : n \in 1..MaxTokens}}
        \cup {Join(BuyMilk)}

(* the to-do list is open on its sample tasks, with a text in the quick add field *)
InitQuickAdd ==
    /\ StartedOn(ReminderDocuments)
    /\ ReminderInit
    /\ LoadInit
    /\ window = "running"
    /\ todo_list = TRUE
    /\ todos = load_todos(0)
    /\ quick_add_edit \in QuickAddTexts
    /\ LaunchInit
    /\ TaskInit

NextQuickAdd == QuickAddTask

QuickAddSpec == InitQuickAdd /\ [][NextQuickAdd]_vars

(* the markers of the quick add syntax among the words of a text *)
IsPriorityMarker(word) == word \in {High, Medium, Low}
IsDeadlineKeyword(word) == word \in {KwToday, KwTomorrow, KwNextWeek}
IsTag(word) == startswith(word, <<"#">>) /\ Len(word) > 1
IsPlainWord(word) == ~IsPriorityMarker(word) /\ ~IsDeadlineKeyword(word) /\ ~IsTag(word)

(* the priority that a marker stands for *)
MarkedPriority(word) ==
    IF word = High THEN "High" ELSE IF word = Medium THEN "Medium" ELSE "Low"

(* the days from today that a keyword stands for *)
KeywordDays(word) ==
    IF word = KwToday THEN 0 ELSE IF word = KwTomorrow THEN 1 ELSE NextWeekDays

------------------------------------------------------------------------------
(* main(): bea_apa.py, lines 59-107, run by each launched process.  The local socket
   of instance_id is a path: QLocalServer.listen binds it and fails when it exists,
   QLocalServer.removeServer deletes it whoever bound it, and a connection to it
   succeeds while the server that bound it listens (the pending connection waits in
   the server's queue, accepted or not). *)

(* socket.waitForConnected(100) *)
waitForConnected ==
    /\ socket_file.exists
    /\ socket_file.owner \in Procs
    /\ listening[socket_file.owner]

(* the application is started once more *)
Launch(p) ==
    /\ pc[p] = "idle"
    /\ pc' = [pc EXCEPT ![p] = "connect"]
    /\ UNCHANGED <<socket_file, listening, sent_raise>>
    /\ UNCHANGED beside_launch_vars

(* lines 64-70: connectToServer; on success write b'raise' and return *)
Connect(p) ==
    /\ pc[p] = "connect"
    /\ IF waitForConnected
       THEN /\ sent_raise' = [sent_raise EXCEPT ![p] = TRUE]
            /\ pc' = [pc EXCEPT ![p] = "exited"]
       ELSE /\ pc' = [pc EXCEPT ![p] = "remove"]
            /\ UNCHANGED sent_raise
    /\ UNCHANGED <<socket_file, listening>>
    /\ UNCHANGED beside_launch_vars

(* lines 72-75: QLocalServer.removeServer(instance_id) *)
RemoveServer(p) ==
    /\ pc[p] = "remove"
    /\ socket_file' = [exists |-> FALSE, owner |-> 0]
    /\ pc' = [pc EXCEPT ![p] = "listen"]
    /\ UNCHANGED <<listening, sent_raise>>
    /\ UNCHANGED beside_launch_vars

(* lines 77-80: server.listen(instance_id), or print and return *)
Listen(p) ==
    /\ pc[p] = "listen"
    /\ IF socket_file.exists
       THEN /\ pc' = [pc EXCEPT ![p] = "exited"]
            /\ UNCHANGED <<socket_file, listening>>
       ELSE /\ socket_file' = [exists |-> TRUE, owner |-> p]
            /\ listening' = [listening EXCEPT ![p] = TRUE]
            /\ pc' = [pc EXCEPT ![p] = "construct"]
    /\ UNCHANGED sent_raise
    /\ UNCHANGED beside_launch_vars

(* lines 82-107: SettingsManager(), MainWindow(settings_manager), show, app.exec_() *)
ConstructWindow(p) ==
    /\ pc[p] = "construct"
    /\ pc' = [pc EXCEPT ![p] = "running"]
    /\ UNCHANGED <<socket_file, listening, sent_raise>>
    /\ UNCHANGED beside_launch_vars

(* MainWindow.exit_app from the tray menu: the window closes, app.exec_() returns
   and the process ends.  Its listener is gone; the path it bound is deleted when the
   QLocalServer is closed in time and left behind otherwise. *)
ExitApp(p) ==
    /\ pc[p] = "running"
    /\ pc' = [pc EXCEPT ![p] = "exited"]
    /\ listening' = [listening EXCEPT ![p] = FALSE]
    /\ \/ UNCHANGED socket_file
       \/ /\ socket_file.exists
          /\ socket_file.owner = p
          /\ socket_file' = [exists |-> FALSE, owner |-> 0]
    /\ UNCHANGED sent_raise
    /\ UNCHANGED beside_launch_vars

(* no process runs; the path may be left over from a process that was killed *)
InitLaunch ==
    /\ StartedOn(ReminderDocuments)
    /\ ReminderInit
    /\ LoadInit
    /\ WindowInit
    /\ TaskInit
    /\ pc = [p \in Procs |-> "idle"]
    /\ socket_file \in {[exists |-> FALSE, owner |-> 0], [exists |-> TRUE, owner |-> 0]}
    /\ listening = [p \in Procs |-> FALSE]
    /\ sent_raise = [p \in Procs |-> FALSE]

NextLaunch ==
    \E p \in Procs :
        \/ Launch(p)
        \/ Connect(p)
        \/ RemoveServer(p)
        \/ Listen(p)
        \/ ConstructWindow(p)
        \/ ExitApp(p)

LaunchSpec == InitLaunch /\ [][NextLaunch]_vars

------------------------------------------------------------------------------
(* The window started on a document whose log_times is full or one short of it *)

(* n saves of earlier runs, one at noon of each of the n days before the start *)
EarlierLogs(n) == [i \in 1..n |-> StampStr(i - n - 1, 12)]

LogTimesDocuments ==
    {Document(MaxGoal, 0, StampStr(0, 0), <<>>, EarlierLogs(n)) :
        n \in {LogTimesCap - 1, LogTimesCap}}

InitLogTimes ==
    StartedOn(LogTimesDocuments) /\ ReminderInit /\ LoadInit /\ WindowInit /\ LaunchInit /\ TaskInit

LogTimesSpec == InitLogTimes /\ [][Next]_vars

------------------------------------------------------------------------------
(* The window started on a document whose log_times holds the saves of one earlier
   day *)

(* hours of the day before the start at which an earlier run saved *)
SaveHours == {10, 12, 13, 15, 17, 19}

(* four or five saves of the day before the start, in the order they were made *)
OneDayLogs ==
    UNION {{[i \in 1..n |-> StampStr(-1, hours[i])] :
               hours \in {h \in [1..n -> SaveHours] : \A i \in 1..(n - 1) : h[i] < h[i + 1]}} :
           n \in ConsistencyMinLogs..TimeBasedMinLogs}

OneDayDocuments ==
    {Document(MaxGoal, 0, StampStr(0, 0), <<>>, log_times) : log_times \in OneDayLogs}

InitOneDay ==
    StartedOn(OneDayDocuments) /\ ReminderInit /\ LoadInit /\ WindowInit /\ LaunchInit /\ TaskInit

OneDaySpec == InitOneDay /\ [][Next]_vars

------------------------------------------------------------------------------
(* The window started on a document of a day on which the goal was already met *)

GoalMetDocuments ==
    {Document(MaxGoal, MaxGoal, StampStr(0, 0), history, Repeat(EarlierLog, 2)) :
        history \in HistoriesFrom(-2)}

InitGoalMet ==
    StartedOn(GoalMetDocuments) /\ ReminderInit /\ LoadInit /\ WindowInit /\ LaunchInit /\ TaskInit

GoalMetSpec == InitGoalMet /\ [][Next]_vars

------------------------------------------------------------------------------
(* AchievementManager.check_todo_achievements on the to-do list.  The manager during
   the call is t = [m, dtc, emitted]: the Manager m, the settings'
   'daily_task_completions' and the achievements achievement_unlocked was emitted
   with. *)

DailyCompletionsCap == 10
HydratedWorkerTasks == 3
FallbackDailyGoal == 8

(* TodoListWidget.get_task_stats: the entries check_todo_achievements reads *)
get_task_stats(list, td) ==
    LET done == {i \in 1..Len(list) : list[i].completed}
    IN [completed |-> Cardinality(done),
        completed_today |->
            Cardinality({i \in done : list[i].completed_at.ok /\ list[i].completed_at.day = td}),
        categories |->
            [c \in {list[i].category : i \in 1..Len(list)} |->
                [total |-> Cardinality({i \in 1..Len(list) : list[i].category = c}),
                 completed |-> Cardinality({i \in done : list[i].category = c})]]]

(* AchievementManager.update_achievement_progress: [t, ret] *)
update_achievement_progress(t, id, progress, now) ==
    LET u == update_progress(t.m.ach[id], progress, now)
        moved == [t EXCEPT !.m.ach[id] = u.a]
    IN IF u.ret
       THEN [t |-> [moved EXCEPT !.m.stored = to_dict(moved.m.ach),
                                 !.emitted = IF u.a.unlocked THEN Append(@, id) ELSE @],
             ret |-> TRUE]
       ELSE [t |-> moved, ret |-> FALSE]

(* `if self.update_achievement_progress(id, progress): newly_unlocked.append(...)` *)
todo_progress_step(t, id, progress, now) ==
    LET u == update_achievement_progress(t, id, progress, now)
    IN IF u.ret THEN [u.t EXCEPT !.m.newly = Append(@, id)] ELSE u.t

(* the loop over dates (sorted, latest first) from index i on, lines 593-598 *)
RECURSIVE MaxConsecutive(_, _, _, _)
MaxConsecutive(dates, i, consecutive, max_consecutive) ==
    IF i > Len(dates) THEN max_consecutive
    ELSE IF dates[i - 1] - dates[i] = 1
    THEN MaxConsecutive(dates, i + 1, consecutive + 1,
                        IF consecutive + 1 > max_consecutive THEN consecutive + 1
                        ELSE max_consecutive)
    ELSE MaxConsecutive(dates, i + 1, 1, max_consecutive)

(* check_todo_achievements, the daily_grind block, lines 568-602 *)
daily_grind_stage(t, task_stats, td, now) ==
    IF t.m.ach["daily_grind"].unlocked THEN t
    ELSE IF task_stats.completed_today > 0
            /\ ~\E i \in 1..Len(t.dtc) : t.dtc[i] = td
    THEN LET appended == Append(t.dtc, td)
             kept == IF Len(appended) > DailyCompletionsCap
                     THEN SubSeq(appended, Len(appended) - DailyCompletionsCap + 1,
                                 Len(appended))
                     ELSE appended
             dates == SortSeq(kept, LAMBDA x, y : x > y)
         IN todo_progress_step([t EXCEPT !.dtc = kept], "daily_grind",
                               MaxConsecutive(dates, 2, 1, 1), now)
    ELSE t

(* check_todo_achievements, the hydrated_worker block, lines 605-608 *)
hydrated_worker_stage(t, S, task_stats, now) ==
    LET daily_goal == IF S.daily_goal = 0 THEN FallbackDailyGoal ELSE S.daily_goal
    IN IF /\ ~t.m.ach["hydrated_worker"].unlocked
          /\ task_stats.completed_today >= HydratedWorkerTasks
          /\ S.log_count >= daily_goal
       THEN [t EXCEPT !.m = UnlockNew(@, "hydrated_worker", now)]
       ELSE t

(* check_todo_achievements, the category_master block, lines 611-616 *)
category_master_stage(t, task_stats, now) ==
    IF /\ ~t.m.ach["category_master"].unlocked
       /\ \E c \in DOMAIN task_stats.categories :
             /\ task_stats.categories[c].total > 0
             /\ task_stats.categories[c].total = task_stats.categories[c].completed
    THEN [t EXCEPT !.m = UnlockNew(@, "category_master", now)]
    ELSE t

(* AchievementManager.check_todo_achievements with a todo widget whose
   get_task_stats gave task_stats *)
check_todo_achievements(A, S, dtc, task_stats, td, now) ==
    LET t0 == [m |-> Manager(A, S.achievements), dtc |-> dtc, emitted |-> <<>>]
        t == category_master_stage(
                 hydrated_worker_stage(
                     daily_grind_stage(
                         todo_progress_step(
                             todo_progress_step(t0, "task_master",
                                                task_stats.completed, now),
                             "productivity_guru", task_stats.completed, now),
                         task_stats, td, now),
                     S, task_stats, now),
                 task_stats, now)
    IN [t EXCEPT !.m = SaveIfNew(t0.m, @)]

(* ProfileSystem.on_achievement_unlocked for each emitted achievement, in order *)
RECURSIVE on_achievement_unlocked(_, _)
on_achievement_unlocked(q, emitted) ==
    IF emitted = <<>> THEN q
    ELSE on_achievement_unlocked(
             process_notification_queue([q EXCEPT !.queue = Append(@, Head(emitted))]),
             Tail(emitted))

(* check_todo_achievements(main_app.todo_list) called on the open to-do list *)
CheckTodoAchievements ==
    /\ todo_list
    /\ \E t \in {check_todo_achievements(achievements, settings, daily_task_completions,
                                         get_task_stats(todos, today), today, Now)} :
          /\ achievements' = t.m.ach
          /\ settings' = [settings EXCEPT !.achievements = t.m.stored]
          /\ daily_task_completions' = t.dtc
          /\ newly_unlocked' = t.m.newly
          /\ UNCHANGED <<stored_todos, modified, water_level, disk_reset>>
          /\ \E q \in {on_achievement_unlocked(
                           [queue |-> notification_queue, active |-> active_notification],
                           t.emitted)} :
                /\ notification_queue' = q.queue
                /\ active_notification' = q.active
    /\ UNCHANGED <<today, hour, hydration_log_count, daily_hydration_goal,
                   daily_reset_timers, startup_check_pending, history_connected>>
    /\ UNCHANGED <<reminder_vars, load_vars, window_vars, todo_vars, launch_vars>>

(* the sample tasks are completed and reopened over the days, and the achievements
   are checked in between *)
NextTodoAchievement ==
    \/ OpenTodoList
    \/ ToggleCompleted
    \/ NewDay
    \/ CheckTodoAchievements

TodoAchievementSpec == InitReminder /\ [][NextTodoAchievement]_vars

------------------------------------------------------------------------------
(* TodoListWidget(settings_manager): the to-do list that loads from and saves to the
   settings 'todos'.  The stored tasks have no deadline, so that the deadline block
   of process_repeating_tasks (lines 1305-1338) is not entered. *)

RepeatOptions == {"Daily", "Weekly", "Monthly"}
WeeklyDays == 7
MonthlyDays == 28

(* TodoItem.from_dict on a dict of TodoItem.to_dict *)
from_dict(data) ==
    [TodoItem(data.text, data.priority, data.tags, data.deadline)
        EXCEPT !.completed = data.completed, !.completed_at = data.completed_at,
               !.category = data.category, !.repeat_option = data.repeat_option]

(* process_repeating_tasks, lines 1267-1291: create_new for one todo of the list *)
create_new(todo, td) ==
    /\ todo.completed
    /\ todo.repeat_option # NoRepeat
    /\ todo.completed_at.ok
    /\ td - todo.completed_at.day > 0
    /\ \/ todo.repeat_option = "Daily"
       \/ todo.repeat_option = "Weekly" /\ td - todo.completed_at.day >= WeeklyDays
       \/ todo.repeat_option = "Monthly" /\ td - todo.completed_at.day >= MonthlyDays

(* process_repeating_tasks, lines 1293-1302: the new instance of a todo *)
new_instance(todo) ==
    [TodoItem(todo.text, todo.priority, todo.tags, NoDate)
        EXCEPT !.category = todo.category, !.repeat_option = todo.repeat_option]

(* process_repeating_tasks: new_todos after the loop over self.todos[:] *)
RECURSIVE new_todos(_, _)
new_todos(list, td) ==
    IF list = <<>> THEN <<>>
    ELSE (IF create_new(Head(list), td) THEN <<new_instance(Head(list))>> ELSE <<>>)
             \o new_todos(Tail(list), td)

(* TodoListWidget.load_todos with a settings manager: [todos, modified] *)
load_stored_todos(todos_data, td) ==
    IF todos_data = <<>>
    THEN [todos |-> create_sample_todos(td), modified |-> FALSE]
    ELSE LET loaded == [i \in 1..Len(todos_data) |-> from_dict(todos_data[i])]
         IN [todos |-> loaded \o new_todos(loaded, td),
             modified |-> new_todos(loaded, td) # <<>>]

(* a repeating or plain task stored by an earlier run: open, or completed on one of
   the days before the start *)
StoredTask(repeat_option, completed_day) ==
    [TodoItem(<<"m", "i", "l", "k">>, "Medium", <<>>, NoDate)
        EXCEPT !.repeat_option = repeat_option,
               !.completed = completed_day < 0,
               !.completed_at = IF completed_day < 0 THEN StampStr(completed_day, 12)
                                ELSE NoDate]

StoredTodoLists ==
    {<<StoredTask(repeat_option, completed_day)>> :
        repeat_option \in RepeatOptions \cup {NoRepeat},
        completed_day \in {0, -1, -WeeklyDays, -MonthlyDays}}

InitStoredTodos ==
    /\ StartedOn(ReminderDocuments) /\ ReminderInit /\ LoadInit /\ WindowInit /\ LaunchInit
    /\ AchievementCheckInit
    /\ WaterLevelInit
    /\ stored_todos \in StoredTodoLists
    /\ modified = FALSE

(* TodoListWidget(settings_manager) is constructed and shown: __init__ calls
   load_todos *)
OpenStoredTodoList ==
    /\ ~todo_list
    /\ \E l \in {load_stored_todos(stored_todos, today)} :
          /\ Len(l.todos) <= MaxTodos
          /\ todos' = l.todos
          /\ modified' = l.modified
    /\ todo_list' = TRUE
    /\ UNCHANGED <<quick_add_edit, stored_todos, daily_task_completions, newly_unlocked>>
    /\ UNCHANGED <<water_level, disk_reset>>
    /\ UNCHANGED <<hydration_vars, reminder_vars, load_vars, window_vars, launch_vars>>

(* the check button of an open task: TodoItemWidget.toggle_completed, then
   on_task_completed with its save_todos *)
CompleteStoredTask ==
    /\ todo_list
    /\ \E pos \in 1..Len(todos) :
          /\ ~todos[pos].completed
          /\ \E toggled \in {toggle_completed(todos[pos], Now)} :
                todos' = on_task_completed([todos EXCEPT ![pos] = toggled], pos,
                                           toggled.completed, Now)
    /\ stored_todos' = todos'
    /\ modified' = FALSE
    /\ UNCHANGED <<todo_list, quick_add_edit, daily_task_completions, newly_unlocked>>
    /\ UNCHANGED <<water_level, disk_reset>>
    /\ UNCHANGED <<hydration_vars, reminder_vars, load_vars, window_vars, launch_vars>>

(* TodoListWidget.closeEvent, after which the widget is gone *)
CloseStoredTodoList ==
    /\ todo_list
    /\ todo_list' = FALSE
    /\ todos' = <<>>
    /\ stored_todos' = IF modified THEN todos ELSE stored_todos
    /\ modified' = FALSE
    /\ UNCHANGED <<quick_add_edit, daily_task_completions, newly_unlocked>>
    /\ UNCHANGED <<water_level, disk_reset>>
    /\ UNCHANGED <<hydration_vars, reminder_vars, load_vars, window_vars, launch_vars>>

NextStoredTodos ==
    \/ OpenStoredTodoList
    \/ CompleteStoredTask
    \/ CloseStoredTodoList
    \/ NewDay

StoredTodosSpec == InitStoredTodos /\ [][NextStoredTodos]_vars

------------------------------------------------------------------------------
(* WaterLevelWidget: widgets/tracker_widget.py.  The widget is created with the main
   window as its parent and with the path of the settings manager's file. *)

WidgetFallbackGoal == 8

(* log_count as settings.json holds it *)
persisted_log_count == IF disk_reset THEN 0 ELSE settings.log_count

(* WaterLevelWidget.load_settings on the file: target_drinks and current_log_count *)
widget_load_settings(daily_goal, log_count) ==
    [exists |-> TRUE,
     target_drinks |-> IF daily_goal <= 0 THEN WidgetFallbackGoal ELSE daily_goal,
     current_log_count |-> IF log_count < 0 THEN 0 ELSE log_count]

(* MainWindow.open_water_level, the first time: WaterLevelWidget.__init__ loads the
   file *)
OpenWaterLevel ==
    /\ ~water_level.exists
    /\ water_level' = widget_load_settings(settings.daily_goal, persisted_log_count)
    /\ UNCHANGED <<daily_task_completions, newly_unlocked, stored_todos, modified,
                   disk_reset>>
    /\ UNCHANGED <<hydration_vars, reminder_vars, load_vars, window_vars, todo_vars,
                   launch_vars>>

(* WaterLevelWidget.reset_today, from the widget's context menu: log_count 0 is
   written into the file, then refresh_data *)
ResetToday ==
    /\ water_level.exists
    /\ disk_reset' = TRUE
    /\ water_level' = widget_load_settings(settings.daily_goal, 0)
    /\ UNCHANGED <<daily_task_completions, newly_unlocked, stored_todos, modified>>
    /\ UNCHANGED <<hydration_vars, reminder_vars, load_vars, window_vars, todo_vars,
                   launch_vars>>

(* WaterLevelWidget.log_drink, from the widget's add button: the parent's log_drink,
   whose save_settings writes the settings manager's dict over the file, then
   refresh_data *)
WidgetLogDrink ==
    /\ water_level.exists
    /\ CanSave
    /\ Commit(log_drink(World, today, Now, history_connected))
    /\ disk_reset' = FALSE
    /\ water_level' = widget_load_settings(settings'.daily_goal, settings'.log_count)
    /\ UNCHANGED <<today, hour, daily_reset_timers, startup_check_pending,
                   history_connected>>
    /\ UNCHANGED <<daily_task_completions, newly_unlocked, stored_todos, modified>>
    /\ UNCHANGED <<reminder_vars, load_vars, window_vars, todo_vars, launch_vars>>

(* WaterLevelWidget.update_display, every minute: refresh_data *)
UpdateDisplay ==
    /\ water_level.exists
    /\ water_level' = widget_load_settings(settings.daily_goal, persisted_log_count)
    /\ UNCHANGED <<daily_task_completions, newly_unlocked, stored_todos, modified,
                   disk_reset>>
    /\ UNCHANGED <<hydration_vars, reminder_vars, load_vars, window_vars, todo_vars,
                   launch_vars>>

NextWaterLevel ==
    \/ OpenWaterLevel
    \/ ResetToday
    \/ WidgetLogDrink
    \/ UpdateDisplay

WaterLevelSpec == Init /\ [][NextWaterLevel]_vars

------------------------------------------------------------------------------
(* The window started on a history with an entry for every second day only *)

(* n entries, one for every second day up to yesterday, each with count *)
EverySecondDay(n, count) ==
    [i \in 1..n |-> [k |-> DateStr(2 * (i - n) - 1), v |-> count]]

GappedDocuments ==
    {Document(goal, 0, StampStr(0, 0), EverySecondDay(n, goal), Repeat(EarlierLog, 2)) :
        goal \in SliderMinGoal..MaxGoal, n \in {PerfectWeekDays - 1, PerfectWeekDays}}

InitGapped ==
    StartedOn(GappedDocuments) /\ ReminderInit /\ LoadInit /\ WindowInit /\ LaunchInit /\ TaskInit

GappedSpec == InitGapped /\ [][Next]_vars

------------------------------------------------------------------------------
(* The running window over a midnight, with the per-second poll of update_timer and
   the daily_reset_timer among the user's actions *)

RolloverSpec == InitReminder /\ [][Next]_vars

------------------------------------------------------------------------------
(* Properties *)

HistoryKeys == DictKeys(settings.history)

(* the count history holds for a day, as a set: empty when the day has no entry *)
Archived(history, day) ==
    {history[i].v : i \in {j \in 1..Len(history) : history[j].k = DateStr(day)}}

(* a step in which check_daily_reset runs *)
ResetStep == UpdateTimer \/ DailyResetTimer

(* C1: the history mapping of the settings document never has a key equal to the
   current date; today's count is held only in log_count until rollover. *)
C1_NoHistoryEntryForToday == DateStr(today) \notin HistoryKeys

(* C2: check_daily_reset with last_log_date's date d before today and log_count c
   leaves history[d] = c when c > 0 and no new key when c = 0, every other entry as
   it was, log_count 0 and last_log_date dated today; with last_log_date dated today
   or unparsable it leaves history and log_count as they were. *)
C2_CheckDailyReset ==
    [][ResetStep =>
        LET d == settings.last_log_date.day
            c == hydration_log_count
        IN IF settings.last_log_date.ok /\ d < today
           THEN /\ c > 0 => /\ Archived(settings'.history, d) = {c}
                            /\ DictKeys(settings'.history) = HistoryKeys \cup {DateStr(d)}
                /\ c = 0 => DictKeys(settings'.history) = HistoryKeys
                /\ \A e \in HistoryKeys \ {DateStr(d)} :
                      DictGet(settings'.history, e, -1) = DictGet(settings.history, e, -1)
                /\ hydration_log_count' = 0
                /\ settings'.log_count = 0
                /\ settings'.last_log_date.ok
                /\ settings'.last_log_date.day = today
           ELSE /\ settings'.history = settings.history
                /\ hydration_log_count' = hydration_log_count
                /\ settings'.log_count = settings.log_count]_vars

(* C2 witness: the count of day 0 was archived by the rollover on day 1 (no history
   window was opened, so the entry comes from check_daily_reset). *)
C2_Witness ==
    /\ today = 1
    /\ ~history_connected
    /\ Archived(settings.history, 0) = {1}
    /\ hydration_log_count = 0
    /\ settings.last_log_date = StampStr(1, 0)

(* C3: with a stale last_log_date, calling check_daily_reset twice in a row gives
   the same history and log_count as calling it once. *)
C3_RolloverIdempotent ==
    Stale =>
        LET once == check_daily_reset(World, today, Now, TRUE)
            twice == check_daily_reset(once, today, Now, TRUE)
        IN /\ twice.settings.history = once.settings.history
           /\ twice.count = once.count
           /\ twice.settings.log_count = once.settings.log_count

(* C3 witness: the date is stale with a count to archive, and both the poll and the
   midnight timer are about to call check_daily_reset. *)
C3_Witness ==
    /\ Stale
    /\ hydration_log_count > 0
    /\ today \in daily_reset_timers
    /\ CanSave

(* C4: log_count never exceeds daily_goal in any state reached through log_drink,
   rollover and saving a changed daily goal in the settings dialog. *)
C4_CountWithinGoal == hydration_log_count <= daily_hydration_goal

(* C5: once an achievement is unlocked it stays unlocked and keeps the unlock_date
   of its first unlock. *)
C5_UnlockMonotonic ==
    [][\A id \in AchIds :
          achievements[id].unlocked =>
              /\ achievements'[id].unlocked
              /\ achievements'[id].unlock_date = achievements[id].unlock_date]_vars

(* C5 witness: an achievement unlocked on day 0 is still unlocked, with that date,
   after the checks of day 1 unlocked another one. *)
C5_Witness ==
    \E a, b \in AchIds :
        /\ achievements[a].unlocked /\ achievements[a].unlock_date.day = 0
        /\ achievements[b].unlocked /\ achievements[b].unlock_date.day = 1

(* C6: update_progress only moves progress forward: the progress of a locked
   achievement never decreases, and an unlocked achievement is left as it is. *)
C6_ProgressForward ==
    [][\A id \in AchIds :
          IF achievements[id].unlocked
          THEN achievements'[id] = achievements[id]
          ELSE achievements'[id].progress >= achievements[id].progress]_vars

(* C7: update_achievements called twice in succession on unchanged history,
   log_count, daily_goal and log_times: the second call reports nothing newly
   unlocked and leaves every achievement as the first call left it. *)
C7_UpdateIdempotent ==
    LET first == update_achievements(achievements, settings, today, Now)
        second == update_achievements(
                      first.ach, [settings EXCEPT !.achievements = first.stored],
                      today, Now)
    IN /\ second.newly = <<>>
       /\ second.ach = first.ach
       /\ second.stored = first.stored

(* C7 witness: a state in which the first of the two calls unlocks an achievement
   and moves the progress of another. *)
C7_Witness ==
    LET first == update_achievements(achievements, settings, today, Now)
    IN /\ first.newly # <<>>
       /\ first.ach["total_drinks_100"].progress # achievements["total_drinks_100"].progress
       /\ ~first.ach["total_drinks_100"].unlocked

(* C8: every achievement that changes from locked to unlocked is written to the
   settings document and placed in the notification queue (or shown at once), also
   when a later check of the same update_achievements call raises. *)
C8_UnlockPersistedAndAnnounced ==
    [][\A id \in AchIds :
          (~achievements[id].unlocked /\ achievements'[id].unlocked) =>
              /\ \E r \in settings'.achievements : r.id = id /\ r.unlocked
              /\ \/ active_notification' = id
                 \/ \E i \in 1..Len(notification_queue') : notification_queue'[i] = id]_vars

(* the count update_stats reads for a day is positive *)
Drank(day) ==
    IF day = today THEN hydration_log_count > 0
    ELSE \E c \in Archived(settings.history, day) : c > 0

(* C9: the streak of update_stats is the number of consecutive days, back from
   today (today's value being the live log_count), with a count > 0, ending at the
   first day that is zero or missing; {T-2:1, T-1:1} with log_count 1 gives 3, and
   with history[T-1] = 0 gives 1. *)
C9_Streak ==
    LET streak == update_stats_streak(World, today)
    IN /\ streak >= 0
       /\ \A i \in 0..(streak - 1) : Drank(today - i)
       /\ ~Drank(today - streak)
       /\ (/\ hydration_log_count = 1
           /\ Archived(settings.history, today - 1) = {1}
           /\ Archived(settings.history, today - 2) = {1}
           /\ Archived(settings.history, today - 3) = {}) => streak = 3
       /\ (/\ hydration_log_count = 1
           /\ Archived(settings.history, today - 1) = {0}
           /\ Archived(settings.history, today - 2) = {1}) => streak = 1

(* C9 witness: the streak is broken by a zero entry for yesterday standing before
   a day with drinks. *)
C9_Witness ==
    /\ hydration_log_count = 1
    /\ Archived(settings.history, today - 1) = {0}
    /\ Archived(settings.history, today - 2) = {1}

(* a step in which update_achievements ran to its end *)
AchievementStep ==
    /\ StartupAchievementCheck \/ LogDrink
    /\ ~update_achievements(achievements, settings', today, Now).raised

(* C10: after update_achievements, three_day_streak / week_streak / month_streak is
   unlocked whenever the streak of update_stats is >= 3 / 7 / 30, and is not newly
   unlocked when that streak is below the threshold. *)
C10_StreakAchievementsFollowStats ==
    [][AchievementStep =>
        LET streak == streak_from(settings'.history, hydration_log_count', today', today')
        IN \A id \in {"three_day_streak", "week_streak", "month_streak"} :
              /\ streak >= RequiredStreak(id) => achievements'[id].unlocked
              /\ streak < RequiredStreak(id) =>
                    (achievements'[id].unlocked => achievements[id].unlocked)]_vars

(* history holds the PerfectWeekDays calendar days from `from` on, each with a
   count >= daily_goal *)
PerfectRunFrom(history, daily_goal, from) ==
    \A i \in 0..(PerfectWeekDays - 1) :
        \E c \in Archived(history, from + i) : c >= daily_goal

HasPerfectRun(history, daily_goal) ==
    \E j \in 1..Len(history) :
        history[j].k.ok /\ PerfectRunFrom(history, daily_goal, history[j].k.day)

(* C11: whenever history contains 7 consecutive calendar days each with a count >=
   daily_goal, check_streak_achievements leaves perfect_week unlocked. *)
C11_PerfectWeekUnlocks ==
    HasPerfectRun(settings.history, settings.daily_goal) =>
        check_streak_achievements(Manager(achievements, settings.achievements),
                                  settings.history, settings.daily_goal, today, Now)
            .ach["perfect_week"].unlocked

(* C11 witness: history holds such a week and update_achievements has unlocked
   perfect_week in this run. *)
C11_Witness ==
    /\ HasPerfectRun(settings.history, settings.daily_goal)
    /\ achievements["perfect_week"].unlocked
    /\ achievements["perfect_week"].unlock_date.ok

(* the entries of history in the order of their dates *)
Chronological(history) == SortSeq(history, LAMBDA a, b : a.k.day < b.k.day)

(* C12: the perfect_week decision depends only on the date -> count mapping: a
   history gives the same outcome as the same entries in chronological order. *)
C12_PerfectWeekOrderIndependent ==
    PerfectScan(settings.history, settings.daily_goal, 0)
        = PerfectScan(Chronological(settings.history), settings.daily_goal, 0)

(* C13: when the interval elapses the reminder is surfaced and reminder_timer is
   disarmed (state Due), to stay so until a re-arming transition. *)
C13_DueDisarmsTimer ==
    [][ShowReminder => (current_reminder' /\ ~reminder_timer_active')]_vars

(* a step that runs schedule_reminder *)
ScheduleStep == ShowReminder \/ ReloadSettings

(* C14: every interval armed by schedule_reminder is 60 * m seconds for an integer m
   with min_minutes <= m <= max_minutes; with min_minutes = max_minutes = 30 it is
   1800 seconds. *)
C14_ScheduledInterval ==
    [][ScheduleStep =>
        /\ \E m \in min_hydration_interval'..max_hydration_interval' :
              current_reminder_interval' = 60 * m
        /\ (min_hydration_interval' = 30 /\ max_hydration_interval' = 30) =>
              current_reminder_interval' = 1800]_vars

(* C14 witness: after a reminder was shown with min_minutes < max_minutes, the
   timer runs with the interval of max_minutes. *)
C14_Witness ==
    /\ current_reminder
    /\ armed_by = "schedule_reminder"
    /\ min_hydration_interval < max_hydration_interval
    /\ current_reminder_interval = 60 * max_hydration_interval

(* C15: in the 90 minutes after classroom_mode, with no snooze and no second
   classroom_mode, no reminder is surfaced. *)
C15_ClassroomQuiet ==
    [][ShowReminder =>
        (classroom_elapsed < 0 \/ classroom_elapsed >= ClassroomSeconds)]_vars

(* C16: for a stored JSON object missing any subset of the keys, load_settings
   returns every key of the defaults, each key of the stored object with its stored
   value (keys unknown to the defaults included) and each absent key with its
   default. *)
C16_LoadMergesDefaults ==
    (loaded_settings.done /\ settings_file.exists /\ settings_file.valid) =>
        LET stored == settings_file.doc
            loaded == loaded_settings.settings
        IN /\ DOMAIN default_settings \subseteq DOMAIN loaded
           /\ \A key \in DOMAIN stored : key \in DOMAIN loaded /\ loaded[key] = stored[key]
           /\ \A key \in DOMAIN default_settings \ DOMAIN stored :
                 loaded[key] = default_settings[key]

(* C16 witness: a loaded object that had a stored value differing from the default,
   a key left to its default and a key unknown to the defaults. *)
C16_Witness ==
    /\ loaded_settings.done /\ settings_file.exists /\ settings_file.valid
    /\ "daily_goal" \in DOMAIN settings_file.doc
    /\ loaded_settings.settings["daily_goal"] # DefaultDailyGoal
    /\ "theme" \notin DOMAIN settings_file.doc
    /\ loaded_settings.settings["theme"] = "Ocean"
    /\ "log_times" \in DOMAIN loaded_settings.settings

(* C17: with a daily_goal of 0 loaded from the stored document, update_progress_ring
   does not fail with a division by zero and the progress is a defined value in
   [0, 1]; the window goes on running. *)
C17_ZeroGoalProgressDefined ==
    (daily_hydration_goal = 0 /\ window # "starting") =>
        /\ window = "running"
        /\ LET ring == update_progress_ring(hydration_log_count, daily_hydration_goal)
           IN ~ring.raised /\ 0 <= ring.num /\ ring.num <= ring.den /\ ring.den > 0

(* C18: for every TodoItem in the list, whatever operations ran (the item's check
   button, the detail dialog saved with the 'completed' box changed, quick add,
   deletion), completed_at is set if and only if completed is true. *)
C18_CompletedAtIffCompleted ==
    \A pos \in 1..Len(todos) : todos[pos].completed_at.ok <=> todos[pos].completed

(* C19: quick add takes the three kinds of marker from wherever they stand among
   the words of the text and strips them from it: a !, !! or !!! gives the priority
   Low, Medium or High, an @today, @tomorrow or @nextweek gives a deadline at 18:00 of
   that day, every #tag goes into the tags, and the text is what is left; so "Buy milk
   !!! @tomorrow #errand" gives "Buy milk", High, tomorrow 18:00 and [errand].  Stated
   for texts with at most one priority marker and at most one deadline keyword. *)
C19_QuickAddParsesMarkers ==
    [][QuickAddTask =>
        LET words == split(quick_add_edit)
            new_todo == todos'[Len(todos')]
            markers == SelectSeq(words, IsPriorityMarker)
            keywords == SelectSeq(words, IsDeadlineKeyword)
        IN (Len(markers) <= 1 /\ Len(keywords) <= 1) =>
              /\ new_todo.text = Join(SelectSeq(words, IsPlainWord))
              /\ Len(markers) = 1 => new_todo.priority = MarkedPriority(markers[1])
              /\ Len(keywords) = 1 =>
                    new_todo.deadline = StampStr(today + KeywordDays(keywords[1]),
                                                 QuickAddDeadlineHour)
              /\ new_todo.tags = [i \in 1..Len(SelectSeq(words, IsTag)) |->
                                     Tail(SelectSeq(words, IsTag)[i])]]_vars

(* C20: for every interleaving of two launches at most one process ends up owning
   the listener and running a MainWindow, and a process launched while another is
   already past its connection attempt sends 'raise' and exits without a window. *)
C20_SingleInstance ==
    /\ Cardinality({p \in Procs : pc[p] \in {"construct", "running"}}) <= 1
    /\ Cardinality({p \in Procs : listening[p]}) <= 1

(* C21: each log_drink appends exactly one timestamp to log_times, and log_times
   never holds more than 100 entries: what it holds after a log_drink is the most
   recent 100 of the old entries followed by the new one, in their order. *)
C21_LogTimesCapped ==
    [][LogDrink =>
        LET appended == Append(settings.log_times, Now)
            kept == settings'.log_times
        IN /\ Len(settings.log_times) <= 100
           /\ Len(kept) = Min(Len(appended), 100)
           /\ \A i \in 1..Len(kept) : kept[i] = appended[Len(appended) - Len(kept) + i]]_vars

(* C21 witness: a full log_times that lost its oldest entry to a drink of this run. *)
C21_Witness ==
    /\ Len(settings.log_times) = LogTimesCap
    /\ settings.log_times[1].day > -LogTimesCap
    /\ settings.log_times[LogTimesCap] = Now
    /\ hydration_log_count > 0

(* C22: the displayed countdown progress is always (time since the reminder timer
   was armed last) / (the armed interval), clamped to [0, 1]; so it is 0 right after
   schedule_reminder, snooze_reminder and classroom_mode. *)
C22_CountdownProgress ==
    get_countdown_progress.num * current_reminder_interval
        = Min(reminder_elapsed, current_reminder_interval) * get_countdown_progress.den

(* some day of log_times has at least 4 logs with 3 consecutive gaps of at least
   2 hours between successive logs *)
HasConsistentDay(log_times) ==
    \E d \in {log_times[i].day : i \in 1..Len(log_times)} :
        LET times == TimesOfDay(log_times, d)
        IN /\ Len(times) >= 4
           /\ \E first \in 1..(Len(times) - 3) :
                 \A i \in first..(first + 2) : times[i + 1] - times[i] >= 2

(* C23: check_time_based_achievements unlocks 'consistency' exactly when log_times
   holds a day with at least 4 logs among which 3 consecutive gaps between successive
   logs are each at least 2 hours, for lists of 4 entries too; good gaps that are not
   consecutive do not qualify. *)
C23_ConsistencyExact ==
    [][(AchievementStep /\ ~achievements["consistency"].unlocked) =>
          (achievements'["consistency"].unlocked <=> HasConsistentDay(settings'.log_times))]_vars

(* C24: drinks are never carried over from one day into the next: whatever the
   interleaving of the saving user actions with the update_timer poll and the
   midnight timer, the count c of a day d that has passed is archived under d and
   the new day starts from 0.  check_daily_reset archives under the stored date
   only, so once the stored date is the new day nothing archives under d any more:
   the step that ends the staleness has to be the rollover. *)
C24_RolloverHappens ==
    [][(Stale /\ hydration_log_count > 0 /\ ~Stale')
          => /\ hydration_log_count \in Archived(settings'.history,
                                                 last_date(settings, today))
             /\ hydration_log_count' = 0]_vars

(* C25: log_drink never decreases today's count, also after the daily goal has been
   lowered below the count in the settings dialog. *)
C25_LogDrinkNeverDecreases ==
    [][LogDrink => hydration_log_count' >= hydration_log_count]_vars

(* C26: every operation other than log_drink that persists the settings (the
   settings dialog's save, clear history, reset today's count, the rollover from
   the poll or the midnight timer) leaves log_times unchanged, so that log_times
   grows only by log_drink calls. *)
C26_OnlyLogDrinkAddsLogTimes ==
    [][(SaveSettingsDialog \/ ClearHistory \/ ResetTodayCount \/ UpdateTimer
            \/ DailyResetTimer)
          => settings'.log_times = settings.log_times]_vars

(* C27: every achievement check_todo_achievements returns as newly unlocked was locked
   before the call and is unlocked after it; task_master, productivity_guru and
   daily_grind are not returned when only their progress changed. *)
C27_NewlyUnlockedAreUnlocked ==
    [][CheckTodoAchievements =>
          \A i \in 1..Len(newly_unlocked') :
              /\ ~achievements[newly_unlocked'[i]].unlocked
              /\ achievements'[newly_unlocked'[i]].unlocked]_vars

(* C28: a completion of a repeating task spawns at most one successor, however often
   the list is loaded and saved afterwards: a list that started with one task never
   holds more tasks than one plus the number of its completed tasks. *)
C28_OneSuccessorPerCompletion ==
    /\ Len(stored_todos) <= 1 + Cardinality({i \in 1..Len(stored_todos) :
                                               stored_todos[i].completed})
    /\ todo_list => Len(todos) <= 1 + Cardinality({i \in 1..Len(todos) :
                                                    todos[i].completed})

(* C29: a reset from the floating tracker widget is not undone by the main window:
   reset_today followed by one log_drink leaves log_count 1 in settings.json. *)
C29_ResetThenLogIsOne ==
    [][(WidgetLogDrink /\ disk_reset) => persisted_log_count' = 1]_vars

(* C30: perfect_week is unlocked only if history holds 7 calendar-consecutive dates
   each with a count >= daily_goal; 7 entries at the goal that are separated by
   absent days do not unlock it. *)
C30_PerfectWeekNeedsConsecutiveDays ==
    [][(~achievements["perfect_week"].unlocked /\ achievements'["perfect_week"].unlocked)
          => HasPerfectRun(settings'.history, settings'.daily_goal)]_vars

=============================================================================
